---- MODULE Spec2Model ----
(***************************************************************************)
(* Graph-inference engine of lkg-yaz-scripts (scripts/graphutils.py).      *)
(*                                                                         *)
(* The rdflib Graph is a set of triples <<s, p, o>>.  A node is a pair     *)
(* <<kind, n>>: the local ID "F2_<yid>" is <<"F2", yid>>, so f2_id.replace *)
(* ("F2_", "F1_", 1) is the change of the kind with the yid kept.          *)
(***************************************************************************)
EXTENDS Integers, FiniteSets, Sequences, TLC

VARIABLES graph,    \* the rdflib Graph the functions read and write
          input,    \* the graph as it was when the running function was called
          pc,       \* position of the pipeline / of the running function
          todo,     \* what the running for-loop has still to visit
          gw,       \* infer_works: the result graph g
          counts,   \* autoinc_id_counts["F1"]
          runs,     \* number of infer_works runs merged so far
          stack,    \* propagate_through_prop: the call stack, top first
          args,     \* propagate_through_prop: the arguments of the outer call
          log,      \* propagate_through_prop: the subjects of its graph.add calls
          order,    \* the store's iteration order: the node it yields first
          autoinc_id_counts, \* the module-level dict autoinc_id_counts
          calls,    \* the allocator calls of the process so far, oldest first
          refs      \* the reference resolver's result for the token in args;
                    \* add_authorships: the references of the table df

vars == <<graph, input, pc, todo, gw, counts, runs, stack, args, log, order, autoinc_id_counts, calls, refs>>

-----------------------------------------------------------------------------
(* Bounds *)
NumExpr == 5          \* Expressions of the derivative-inference inputs
MaxDerivEdges == 2    \* derivative triples of the derivative-inference inputs
MaxCompositeEdges == 2 \* derivative triples between the components of two composites
NumWorkExpr == 3      \* Expressions of the work-inference inputs
MaxWorkEdges == 2     \* derivative triples of the work-inference inputs
MaxRuns == 2          \* calls of infer_works in one behaviour
NumPropNodes == 4     \* nodes of the hierarchies propagate_through_prop walks
MaxHierEdges == 3     \* hierarchy triples of those hierarchies

-----------------------------------------------------------------------------
(* Vocabulary *)
R5_has_component == "R5_has_component"
R5i_is_component_of == "R5i_is_component_of"
R76_is_derivative_of == "R76_is_derivative_of"
S761_is_translation_of == "S761_is_translation_of"
S762_is_altered_form_of == "S762_is_altered_form_of"
S763_is_reduced_form_of == "S763_is_reduced_form_of"
S764_is_extended_form_of == "S764_is_extended_form_of"
R3_is_realised_in == "R3_is_realised_in"
R3i_realises == "R3i_realises"
R17i_was_created_by == "R17i_was_created_by"
RDF_type == "rdf_type"
R19_created_a_realisation_of == "R19_created_a_realisation_of"
R19i_was_realised_through == "R19i_was_realised_through"
ORDERLABEL == "hiddenLabel"
S142_written_by == "S142_written_by"
SKIP == "SKIP"
S143_translated_by == "S143_translated_by"
R16_created == "R16_created"
R16i_was_created_by == "R16i_was_created_by"

\* the alternation of the five derivative-type relations
derivoptions ==
  { R76_is_derivative_of, S761_is_translation_of, S762_is_altered_form_of,
    S763_is_reduced_form_of, S764_is_extended_form_of }

None == <<"None", 0>>
F2(n) == <<"F2", n>>
F1(n) == <<"F1", n>>
F28(n) == <<"F28", n>>
F2_Expression == <<"Class", 2>>
F1_Work == <<"Class", 1>>
Literal(n) == <<"Literal", n>>
F27_Work_Creation == <<"Class", 27>>
F27(n) == <<"F27", n>>
\* E21_P0: Lem
E21_P0 == <<"E21", 0>>

-----------------------------------------------------------------------------
(* rdflib.Graph queries *)
objects(g, s, p) == { t[3] : t \in { u \in g : u[1] = s /\ u[2] = p } }
subjects(g, p, o) == { t[1] : t \in { u \in g : u[2] = p /\ u[3] = o } }
predicates(g, s, o) == { t[2] : t \in { u \in g : u[1] = s /\ u[3] = o } }
\* objects(s, p1|p2|...)
objects_alt(g, s, ps) == { t[3] : t \in { u \in g : u[1] = s /\ u[2] \in ps } }

\* Graph.value(s, p): one of the objects, None when there is none.  Which
\* one is the store's iteration order; it is the same for every call as long
\* as the triples (s, p, _) do not change.
value(g, s, p) ==
  IF objects(g, s, p) = {} THEN None
  ELSE IF order \in objects(g, s, p) THEN order
  ELSE CHOOSE o \in objects(g, s, p) : \A o2 \in objects(g, s, p) : o[2] <= o2[2]

\* a set of nodes as a list
RECURSIVE as_list(_)
as_list(S) ==
  IF S = {} THEN <<>>
  ELSE LET x == CHOOSE y \in S : \A z \in S : y[2] <= z[2]
       IN <<x>> \o as_list(S \ {x})

RECURSIVE intersection(_)
intersection(sets) ==
  IF Len(sets) = 1 THEN sets[1] ELSE sets[1] \cap intersection(Tail(sets))

-----------------------------------------------------------------------------
(* Derivative Inference Engine: _infer_derivative *)

\* variant: with several targets the first one is taken
infer_leaf_first(g, sender_node) ==
  LET outputobjs == objects_alt(g, sender_node, derivoptions)
  IN IF outputobjs /= {}
     THEN LET refnode == CHOOSE o \in outputobjs : \A o2 \in outputobjs : o[2] <= o2[2]
          IN [some |-> TRUE, props |-> predicates(g, sender_node, refnode), ref |-> refnode]
     ELSE [some |-> FALSE, props |-> {}, ref |-> None]

\* the result of the leaf branch
infer_leaf(g, sender_node) ==
  LET outputobjs == objects_alt(g, sender_node, derivoptions)
  IN IF Cardinality(outputobjs) = 1
     THEN LET refnode == CHOOSE o \in outputobjs : TRUE
          IN [some |-> TRUE, props |-> predicates(g, sender_node, refnode), ref |-> refnode]
     ELSE [some |-> FALSE, props |-> {}, ref |-> None]

RECURSIVE union_all(_)
union_all(sets) ==
  IF Len(sets) = 1 THEN sets[1] ELSE sets[1] \cup union_all(Tail(sets))

\* variant: every relation type of some component
combine_props_union(propsets) == union_all(propsets)

\* the set the parent relation is built from
combine_props(propsets) == intersection(propsets)

\* the test on the children's results
children_agree(derivinfo) ==
  /\ \A i \in DOMAIN derivinfo : derivinfo[i].some
  /\ Cardinality({ derivinfo[i].ref : i \in DOMAIN derivinfo }) = 1

\* _infer_derivative(graph, sender_node): the graph after the call and the
\* returned value (some = FALSE is None)
RECURSIVE infer_derivative(_, _)
RECURSIVE infer_children(_, _)

\* [_infer_derivative(graph, child) for child in children], the graph threaded
infer_children(g, children) ==
  IF children = <<>> THEN [g |-> g, info |-> <<>>]
  ELSE LET first == infer_derivative(g, Head(children))
           rest == infer_children(first.g, Tail(children))
       IN [g |-> rest.g, info |-> <<first.r>> \o rest.info]

\* variant: the common target itself, not its container
common_ref_target(g, derivinfo) == derivinfo[1].ref

\* the node the parent is related to: the container of the common target
common_ref(g, derivinfo) == value(g, derivinfo[1].ref, R5i_is_component_of)

infer_derivative(g, sender_node) ==
  LET children == as_list(objects(g, sender_node, R5_has_component))
      none == [some |-> FALSE, props |-> {}, ref |-> None]
  IN IF children /= <<>>
     THEN LET sub == infer_children(g, children)
              derivinfo == sub.info
          IN IF children_agree(derivinfo)
             THEN LET outputprops ==
                        combine_props([i \in DOMAIN derivinfo |-> derivinfo[i].props])
                      ref == common_ref(sub.g, derivinfo)
                  IN IF ref /= None
                     THEN [g |-> sub.g \cup { <<sender_node, p, ref>> : p \in outputprops },
                           r |-> [some |-> TRUE, props |-> outputprops, ref |-> ref]]
                     ELSE [g |-> sub.g, r |-> none]
             ELSE [g |-> sub.g, r |-> none]
     ELSE [g |-> g, r |-> infer_leaf(g, sender_node)]

\* the subjects infer_derivatives calls _infer_derivative on
infer_roots(g) ==
  { t[1] : t \in { u \in g : u[2] = R5_has_component
                             /\ value(g, u[1], R5i_is_component_of) = None } }

-----------------------------------------------------------------------------
(* Inputs of the derivative inference: a component forest and a few         *)
(* derivative triples between Expressions                                   *)
Exprs == { F2(n) : n \in 1..NumExpr }

\* parent of each Expression (0: none); numbered breadth-first, so every
\* forest shape occurs once
ParentMaps ==
  { f \in [1..NumExpr -> 0..(NumExpr - 1)] :
      \A n \in 1..NumExpr : f[n] < n /\ (n > 1 => f[n] >= f[n - 1]) }

\* the triples add_nonfic writes for the hierarchy: both directions together
hierarchy(f) ==
  UNION { { <<F2(f[n]), R5_has_component, F2(n)>>, <<F2(n), R5i_is_component_of, F2(f[n])>> }
          : n \in { m \in 1..NumExpr : f[m] /= 0 } }

\* a second has_part row naming the last Expression: it then has two parents
ExtraParents(f) ==
  { <<0, 0>> } \cup
  { <<p, NumExpr>> : p \in { q \in 1..(NumExpr - 1) : f[NumExpr] /= 0 /\ q /= f[NumExpr] } }

extra_hierarchy(x) ==
  IF x[1] = 0 THEN {}
  ELSE { <<F2(x[1]), R5_has_component, F2(x[2])>>, <<F2(x[2]), R5i_is_component_of, F2(x[1])>> }

InputDerivTypes == { S761_is_translation_of, S763_is_reduced_form_of }

DerivTriples ==
  { <<a, p, b>> : a \in Exprs, p \in InputDerivTypes, b \in Exprs }

RECURSIVE subsets_upto(_, _)
subsets_upto(S, k) ==
  IF k = 0 THEN { {} }
  ELSE LET smaller == subsets_upto(S, k - 1)
       IN smaller \cup { T \cup {x} : T \in smaller, x \in S }

\* the dict autoinc_id_counts = {} of a fresh process
EmptyDict == [ p \in {} |-> 0 ]
idle_alloc == autoinc_id_counts = EmptyDict /\ calls = <<>>
idle_refs == refs = <<>>
idle_works == gw = {} /\ counts = 0 /\ runs = 0
idle_prop == stack = <<>> /\ args = <<>> /\ log = <<>>

InitDeriv ==
  /\ \E f \in ParentMaps : \E x \in ExtraParents(f) :
       /\ \E D \in subsets_upto(DerivTriples, MaxDerivEdges) :
            graph = hierarchy(f) \cup extra_hierarchy(x) \cup D
       /\ order \in IF x[1] = 0 THEN { None } ELSE { None, F2(x[1]) }
  /\ input = graph
  /\ pc = "infer_derivatives"
  /\ todo = infer_roots(graph)
  /\ idle_works /\ idle_prop
  /\ idle_alloc /\ idle_refs

\* one iteration of the loop of infer_derivatives
InferDerivativesVisit ==
  /\ pc = "infer_derivatives"
  /\ \E s \in todo :
       /\ graph' = infer_derivative(graph, s).g
       /\ todo' = todo \ {s}
  /\ UNCHANGED <<input, pc, gw, counts, runs, stack, args, log, order, autoinc_id_counts, calls, refs>>

\* the loop of infer_derivatives is exhausted
InferDerivativesReturn ==
  /\ pc = "infer_derivatives"
  /\ todo = {}
  /\ pc' = "derivatives_inferred"
  /\ UNCHANGED <<graph, input, todo, gw, counts, runs, stack, args, log, order, autoinc_id_counts, calls, refs>>

NextDeriv == InferDerivativesVisit \/ InferDerivativesReturn

SpecDeriv == InitDeriv /\ [][NextDeriv]_vars

\* Two composite Expressions A = {a1, a2} and B = {b1, b2}; the components of
\* A carry derivative relations of any type to components of B
ExprA == F2(1)
ExprB == F2(2)
CompositePair ==
  { <<ExprA, R5_has_component, F2(3)>>, <<F2(3), R5i_is_component_of, ExprA>>,
    <<ExprA, R5_has_component, F2(4)>>, <<F2(4), R5i_is_component_of, ExprA>>,
    <<ExprB, R5_has_component, F2(5)>>, <<F2(5), R5i_is_component_of, ExprB>>,
    <<ExprB, R5_has_component, F2(6)>>, <<F2(6), R5i_is_component_of, ExprB>> }

ComponentTriples ==
  { <<a, p, b>> : a \in { F2(3), F2(4) }, p \in derivoptions, b \in { F2(5), F2(6) } }

InitComposite ==
  /\ \E D \in subsets_upto(ComponentTriples, MaxCompositeEdges) : graph = CompositePair \cup D
  /\ order = None
  /\ input = graph
  /\ pc = "infer_derivatives"
  /\ todo = infer_roots(graph)
  /\ idle_works /\ idle_prop
  /\ idle_alloc /\ idle_refs

SpecComposite == InitComposite /\ [][NextDeriv]_vars

-----------------------------------------------------------------------------
(* Properties of the derivative inference *)
children_of(g, s) == objects(g, s, R5_has_component)
is_leaf(g, s) == children_of(g, s) = {}
deriv_targets(g, s) == objects_alt(g, s, derivoptions)
deriv_types(g, s) == { t[2] : t \in { u \in g : u[1] = s /\ u[2] \in derivoptions } }
asserted == graph \ input
inferred_done == pc = "derivatives_inferred"

irreflexive(g) == \A t \in g : t[2] \in derivoptions => t[1] /= t[3]
asymmetric(g) ==
  \A t \in g : \A u \in g :
    (t[2] \in derivoptions /\ u[2] \in derivoptions) => ~(t[1] = u[3] /\ t[3] = u[1])

nodes_of(g) == { t[1] : t \in g } \cup { t[3] : t \in g }

\* every component of a is related by p to a component of b of its own
componentwise(g, a, p, b) ==
  \E m \in [children_of(g, a) -> children_of(g, b)] :
    /\ \A x \in DOMAIN m : \A y \in DOMAIN m : m[x] = m[y] => x = y
    /\ \A x \in DOMAIN m : <<x, p, m[x]>> \in g

\* C1: when every component of a composite Expression A is related by one
\* relation type p to a distinct component of a composite Expression B, the
\* graph contains (A, p, B) after the inference.
C1_CompositeDerivation ==
  inferred_done =>
    \A a \in nodes_of(input) : \A b \in nodes_of(input) : \A p \in derivoptions :
      (a /= b /\ ~is_leaf(input, a) /\ ~is_leaf(input, b) /\ componentwise(input, a, p, b))
        => <<a, p, b>> \in graph

\* the relation types by which a component is a derivative once the inference
\* has run: its own relations and, when it has components, the inferred ones
component_types(c) == deriv_types(graph, c)

types_disjoint(s) ==
  \A p \in derivoptions : \E c \in children_of(input, s) : p \notin component_types(c)

is_tree(g) == \A s \in Exprs : Cardinality(objects(g, s, R5i_is_component_of)) <= 1

C3_AssertedAsymmetric ==
  (is_tree(input) /\ irreflexive(input) /\ asymmetric(input)) =>
    \A t \in asserted : t[2] \in derivoptions => <<t[3], t[2], t[1]>> \notin graph

\* C4: with irreflexive input relations the inference adds no triple from an
\* Expression to itself.
C4_NoSelfDerivative ==
  irreflexive(input) => \A t \in asserted : t[1] /= t[3]

\* every component of s derives from s itself, and s got a relation to its
\* own container
C4_Witness ==
  /\ inferred_done
  /\ irreflexive(input)
  /\ \E s \in Exprs :
       /\ ~is_leaf(input, s)
       /\ \A c \in children_of(input, s) : deriv_targets(input, c) = {s}
       /\ \E t \in asserted : t[1] = s /\ t[2] \in derivoptions

-----------------------------------------------------------------------------
(* Work Inference Engine: infer_works *)

\* the nodes reached from the nodes of frontier by one or more triples whose
\* predicate is in ps: the evaluation of (p1|p2|...) * OneOrMore
RECURSIVE path_closure(_, _, _, _)
path_closure(g, ps, frontier, seen) ==
  LET step == { t[3] : t \in { u \in g : u[1] \in frontier /\ u[2] \in ps } } \ seen
  IN IF step = {} THEN seen ELSE path_closure(g, ps, step, seen \cup step)

RECURSIVE path_closure_back(_, _, _, _)
path_closure_back(g, ps, frontier, seen) ==
  LET step == { t[1] : t \in { u \in g : u[3] \in frontier /\ u[2] \in ps } } \ seen
  IN IF step = {} THEN seen ELSE path_closure_back(g, ps, step, seen \cup step)

derivpath == derivoptions

\* graph.objects(exp, derivpath, unique=True)
sources_of(g, exp) == path_closure(g, derivpath, {exp}, {})
\* variant: one hop only, no closure
derivatives_direct(g, exp) == { t[1] : t \in { u \in g : u[3] = exp /\ u[2] \in derivpath } }

\* graph.subjects(derivpath, exp, unique=True)
derivatives_of(g, exp) == path_closure_back(g, derivpath, {exp}, {})

has_skip(g, exp) == \E t \in g : t[1] = exp /\ t[2] = SKIP

\* variant: without the test for an existing realises relation
makes_work_unguarded(g, exp) ==
  /\ sources_of(g, exp) = {}
  /\ ~has_skip(g, exp)

\* variant: without the test for the skip marker
makes_work_unskipped(g, exp) ==
  /\ sources_of(g, exp) = {}
  /\ value(g, exp, R3i_realises) = None

\* the guard under which infer_works builds a Work for exp
makes_work(g, exp) ==
  /\ sources_of(g, exp) = {}
  /\ value(g, exp, R3i_realises) = None
  /\ ~has_skip(g, exp)

f1_of(exp) == <<"F1", exp[2]>>
f28_of(exp) == <<"F28", exp[2]>>
f27_of(exp) == F27(exp[2])

\* the relations of the creation event that are copied to the Work's
authorprops ==
  { "S141_composed_by", S142_written_by, S143_translated_by, "S144_edited_by",
    "S146_performed_by", "S147_directed_by" }

\* the triples that link the Work f1 and the Expression d
realisation(g, f1, d, d_f28) ==
  { <<f1, R3_is_realised_in, d>>, <<d, R3i_realises, f1>>,
    <<d_f28, R19_created_a_realisation_of, f1>>, <<f1, R19i_was_realised_through, d_f28>> }

\* variant: the Work is named after the number the allocator returns
work_triples_numbered(g, exp, n) ==
  { <<F1(n), RDF_type, F1_Work>>, <<F1(n), ORDERLABEL, Literal(n)>> }
  \cup realisation(g, F1(n), exp, f28_of(exp))
  \cup UNION { realisation(g, F1(n), d, value(g, d, R17i_was_created_by))
              : d \in derivatives_of(g, exp) }

\* the triples one iteration of infer_works adds to g for exp
work_triples(g, exp, n) ==
  { <<f1_of(exp), RDF_type, F1_Work>>, <<f1_of(exp), ORDERLABEL, Literal(n)>> }
  \cup realisation(g, f1_of(exp), exp, f28_of(exp))
  \cup { <<f27_of(exp), RDF_type, F27_Work_Creation>>,
         <<f27_of(exp), R16_created, f1_of(exp)>>,
         <<f1_of(exp), R16i_was_created_by, f27_of(exp)>> }
  \cup { <<f27_of(exp), t[2], t[3]>> :
           t \in { u \in g : u[1] = f28_of(exp) /\ u[2] \in authorprops } }
  \cup UNION { realisation(g, f1_of(exp), d, value(g, d, R17i_was_created_by))
              : d \in derivatives_of(g, exp) }

\* Graph.add asserts that subject and object are terms: g.add((None, ...)) raises
add_raises(g, exp) ==
  \E d \in derivatives_of(g, exp) : value(g, d, R17i_was_created_by) = None

-----------------------------------------------------------------------------
(* Inputs of the work inference *)
WorkExprs == { F2(n) : n \in 1..NumWorkExpr }
Monograph == <<"F1", 0>>

\* what add_nonfic writes for a row
expression(e) ==
  { <<e, RDF_type, F2_Expression>>, <<e, R17i_was_created_by, f28_of(e)>> }

\* what build_monographs writes for an edition of its Work
edition(e) ==
  { <<Monograph, RDF_type, F1_Work>>, <<Monograph, R3_is_realised_in, e>>,
    <<e, R3i_realises, Monograph>>,
    <<f28_of(e), R19_created_a_realisation_of, Monograph>>,
    <<Monograph, R19i_was_realised_through, f28_of(e)>> }

WorkDerivTriples ==
  { t \in { <<a, p, b>> : a \in WorkExprs, p \in InputDerivTypes, b \in WorkExprs } :
      t[1] /= t[3] }

typed(g) == subjects(g, RDF_type, F2_Expression)

InitWorks ==
  /\ \E D \in subsets_upto(WorkDerivTriples, MaxWorkEdges) :
     \E skipped \in SUBSET WorkExprs : \E editions \in SUBSET WorkExprs :
     \E missing \in { {}, { F2(NumWorkExpr) } } :
     \E by_lem \in { {}, { F2(1) } } :
       /\ editions \cap missing = {} /\ skipped \cap missing = {}
       /\ graph = D \cup UNION { expression(e) : e \in WorkExprs \ missing }
                    \cup { <<f28_of(e), S142_written_by, E21_P0>> : e \in by_lem }
                    \cup UNION { edition(e) : e \in editions }
                    \cup { <<e, SKIP, Literal(1)>> : e \in skipped }
       /\ counts = IF editions = {} THEN 0 ELSE 1
  /\ input = graph
  /\ pc = "infer_works"
  /\ todo = typed(graph)
  /\ gw = {}
  /\ runs = 0
  /\ order = None
  /\ idle_prop
  /\ idle_alloc /\ idle_refs

\* one iteration of the loop of infer_works; graph is only read
InferWorksVisit ==
  /\ pc = "infer_works"
  /\ \E exp \in todo :
       /\ todo' = todo \ {exp}
       /\ IF makes_work(graph, exp)
          THEN IF add_raises(graph, exp)
               THEN pc' = "raised" /\ UNCHANGED <<gw, counts>>
               ELSE /\ gw' = gw \cup work_triples(graph, exp, counts)
                    /\ counts' = counts + 1
                    /\ pc' = pc
          ELSE UNCHANGED <<gw, counts, pc>>
  /\ UNCHANGED <<graph, input, runs, stack, args, log, order, autoinc_id_counts, calls, refs>>

\* return g; graph += gw
InferWorksMerge ==
  /\ pc = "infer_works"
  /\ todo = {}
  /\ graph' = graph \cup gw
  /\ runs' = runs + 1
  /\ pc' = "works_merged"
  /\ UNCHANGED <<input, todo, gw, counts, stack, args, log, order, autoinc_id_counts, calls, refs>>

\* infer_works is called again on the merged graph
InferWorksAgain ==
  /\ pc = "works_merged"
  /\ runs < MaxRuns
  /\ input' = graph
  /\ todo' = typed(graph)
  /\ gw' = {}
  /\ pc' = "infer_works"
  /\ UNCHANGED <<graph, counts, runs, stack, args, log, order, autoinc_id_counts, calls, refs>>

NextWorks == InferWorksVisit \/ InferWorksMerge \/ InferWorksAgain

SpecWorks == InitWorks /\ [][NextWorks]_vars

-----------------------------------------------------------------------------
(* Properties of the work inference *)
works_of(g, e) == objects(g, e, R3i_realises)
work_entities(g) == subjects(g, RDF_type, F1_Work)
merged == pc = "works_merged"
returned == pc = "infer_works" /\ todo = {}

has_source(g, e) == \E t \in g : t[1] = e /\ t[2] \in derivoptions
\* the Expressions from which b is reached by one or more derivative relations
reaching(g, b) == path_closure_back(g, derivoptions, {b}, {})

C6_OneWorkPerExpression ==
  merged => \A e \in WorkExprs : Cardinality(works_of(graph, e)) <= 1

related(g, e) ==
  \E t \in g : /\ t[2] \in derivoptions
               /\ t[1] /= t[3]
               /\ {t[1], t[3]} \subseteq typed(g)
               /\ e \in {t[1], t[3]}

\* C7 as stated: after the merge every Expression that has a derivative
\* relation to or from another Expression realises some Work.
C7_EveryClusterHasWork ==
  merged => \A e \in typed(graph) : related(graph, e) => works_of(graph, e) /= {}

\* the Expressions the inference can start a cluster from
unmarked_root(g, r) == r \in typed(g) /\ ~has_source(g, r) /\ ~has_skip(g, r)

\* C7 amended: after the merge an Expression realises some Work if it has no
\* outgoing derivative relation and no skip marker, or if it reaches by
\* derivative relations such an Expression that realised no Work before the
\* first run.
C7_RootedClusterHasWork ==
  (merged /\ runs = 1) =>
    \A e \in typed(input) :
      ( \/ unmarked_root(input, e)
        \/ \E r \in typed(input) : /\ unmarked_root(input, r)
                                   /\ works_of(input, r) = {}
                                   /\ e \in reaching(input, r) )
      => works_of(graph, e) /= {}

\* an Expression two derivative hops away from its root has the root's Work
C7_Witness ==
  /\ merged /\ runs = 1
  /\ \E e \in typed(input) : \E r \in typed(input) :
       /\ unmarked_root(input, r) /\ works_of(input, r) = {}
       /\ e \in reaching(input, r)
       /\ ~(\E t \in input : t[1] = e /\ t[3] = r)
       /\ f1_of(r) \in works_of(graph, e)

\* C8: the result of a run holds a Work for exactly the Expressions without
\* outgoing derivative relation, without realises relation and without skip
\* marker; the Work of such an Expression is realised in it and in exactly
\* the Expressions that reach it by derivative relations.
work_roots(g) == { e \in typed(g) : unmarked_root(g, e) /\ works_of(g, e) = {} }

C8_WorkIffRoot ==
  returned =>
    /\ work_entities(gw) = { f1_of(e) : e \in work_roots(input) }
    /\ \A e \in work_roots(input) :
         /\ objects(gw, f1_of(e), R3_is_realised_in) = {e} \cup reaching(input, e)
         /\ subjects(gw, R3i_realises, f1_of(e)) = {e} \cup reaching(input, e)
         /\ Cardinality(objects(gw, f1_of(e), ORDERLABEL)) = 1
    /\ \A t \in gw : t[2] = R3i_realises => t[3] \in { f1_of(e) : e \in work_roots(input) }

\* a run returned a Work for a root with a derivative, and none for an
\* Expression that carries the skip marker
C8_Witness ==
  /\ returned
  /\ \E e \in work_roots(input) : reaching(input, e) /= {} /\ f1_of(e) \in work_entities(gw)
  /\ \E e \in typed(input) : has_skip(input, e) /\ ~has_source(input, e)
                              /\ works_of(input, e) = {}

-----------------------------------------------------------------------------
(* Hierarchy Propagator: propagate_through_prop *)

\* the interpreter's recursion limit; the model's is just above the deepest
\* recursion that attaches one relation per call
RecursionLimit == NumPropNodes + 2

\* variant: the source node is in its own work list
linked_with_source(g, src_node, hierarchy_prop) ==
  objects(g, src_node, hierarchy_prop) \cup {src_node}

\* list(graph.objects(subject=src_node, predicate=hierarchy_prop)); pop()
\* takes the nodes in the store's order, any order
linked(g, src_node, hierarchy_prop) == objects(g, src_node, hierarchy_prop)

\* obj = node, or graph.value(node, neighbor_prop)
resolve(g, node, neighbor_prop) ==
  IF neighbor_prop = "" THEN node ELSE value(g, node, neighbor_prop)

\* variant: the guard never finds the relation
never_attached(g, obj, predicate, object) == FALSE

\* (obj, predicate, object) in graph; None is a wildcard of the lookup
already_attached(g, obj, predicate, object) ==
  IF obj = None THEN \E t \in g : t[2] = predicate /\ t[3] = object
  ELSE <<obj, predicate, object>> \in g

-----------------------------------------------------------------------------
(* Inputs of the propagator: any hierarchy relation over a few nodes, the   *)
(* root F2_1, with or without the redirection to the creation events.  At   *)
(* most one node has no creation event and at most one node carries the     *)
(* relation beforehand; as the hierarchy is any relation, it is enough to   *)
(* let these be the root or one fixed other node.                           *)
PropNodes == { F2(n) : n \in 1..NumPropNodes }
Person == <<"E21", 1>>

HierTriples ==
  { t \in { <<a, R5_has_component, b>> : a \in PropNodes, b \in PropNodes } : t[1] /= t[3] }

InitProp ==
  /\ \E H \in subsets_upto(HierTriples, MaxHierEdges) :
     \E via \in { "", R17i_was_created_by } :
     \E missing \in { {}, { F2(1) }, { F2(NumPropNodes) } } :
     \E pre \in { {}, { F2(1) }, { F2(2) } } :
       /\ via = "" => missing = {}
       /\ pre \cap missing = {}
       /\ graph = H
            \cup (IF via = "" THEN {}
                  ELSE { <<n, R17i_was_created_by, f28_of(n)>> : n \in PropNodes \ missing })
            \cup { <<IF via = "" THEN n ELSE f28_of(n), S142_written_by, Person>> : n \in pre }
       /\ args = [src_node |-> F2(1), hierarchy_prop |-> R5_has_component,
                  predicate |-> S142_written_by, object |-> Person, neighbor_prop |-> via]
  /\ input = graph
  /\ pc = "propagate"
  /\ stack = << linked(graph, args.src_node, args.hierarchy_prop) >>
  /\ log = <<>>
  /\ todo = {}
  /\ order = None
  /\ idle_works
  /\ idle_alloc /\ idle_refs

\* while linked: node = linked.pop(); the relation is there: continue
PropagateSkip ==
  /\ pc = "propagate" /\ stack /= <<>>
  /\ \E node \in Head(stack) :
       /\ already_attached(graph, resolve(graph, node, args.neighbor_prop),
                           args.predicate, args.object)
       /\ stack' = << Head(stack) \ {node} >> \o Tail(stack)
  /\ UNCHANGED <<graph, input, pc, todo, gw, counts, runs, args, log, order, autoinc_id_counts, calls, refs>>

\* graph.add((obj, predicate, object)) and the recursive call on node
PropagateAttach ==
  /\ pc = "propagate" /\ stack /= <<>>
  /\ \E node \in Head(stack) :
       LET obj == resolve(graph, node, args.neighbor_prop)
       IN /\ ~already_attached(graph, obj, args.predicate, args.object)
          /\ obj /= None
          /\ graph' = graph \cup { <<obj, args.predicate, args.object>> }
          /\ log' = Append(log, obj)
          /\ IF Len(stack) < RecursionLimit
             THEN /\ stack' = << linked(graph', node, args.hierarchy_prop) >>
                              \o << Head(stack) \ {node} >> \o Tail(stack)
                  /\ pc' = pc
             ELSE /\ pc' = "recursion_error"
                  /\ stack' = stack
  /\ UNCHANGED <<input, todo, gw, counts, runs, args, order, autoinc_id_counts, calls, refs>>

\* graph.add((None, predicate, object)): the subject is no term
PropagateRaise ==
  /\ pc = "propagate" /\ stack /= <<>>
  /\ \E node \in Head(stack) :
       LET obj == resolve(graph, node, args.neighbor_prop)
       IN /\ ~already_attached(graph, obj, args.predicate, args.object)
          /\ obj = None
  /\ pc' = "raised"
  /\ UNCHANGED <<graph, input, todo, gw, counts, runs, stack, args, log, order, autoinc_id_counts, calls, refs>>

\* linked is empty: the call returns to its caller
PropagateReturn ==
  /\ pc = "propagate" /\ stack /= <<>>
  /\ Head(stack) = {}
  /\ stack' = Tail(stack)
  /\ pc' = IF Tail(stack) = <<>> THEN "propagated" ELSE pc
  /\ UNCHANGED <<graph, input, todo, gw, counts, runs, args, log, order, autoinc_id_counts, calls, refs>>

NextProp == PropagateSkip \/ PropagateAttach \/ PropagateRaise \/ PropagateReturn

SpecProp == InitProp /\ [][NextProp]_vars

\* the call runs on one thread that nothing suspends: it takes its next step
SpecPropLive == SpecProp /\ WF_vars(NextProp)

-----------------------------------------------------------------------------
(* Properties of the propagator *)
propagated == pc = "propagated"
\* the nodes reached from the root by one or more hierarchy triples
descendants == path_closure(input, {args.hierarchy_prop}, {args.src_node}, {})
carriers(g) == subjects(g, args.predicate, args.object)
times_added(n) == Cardinality({ i \in DOMAIN log : log[i] = n })

\* C9: called without redirection on a graph in which no node carries the
\* relation, the propagator leaves the relation on exactly the nodes reached
\* from the root by one or more hierarchy triples, adds it once for each of
\* them and adds nothing else to the graph.
C9_AttachesReachableOnce ==
  (propagated /\ args.neighbor_prop = "" /\ carriers(input) = {}) =>
    /\ carriers(graph) = descendants
    /\ \A n \in PropNodes : times_added(n) = (IF n \in descendants THEN 1 ELSE 0)
    /\ graph \ input = { <<n, args.predicate, args.object>> : n \in descendants }

\* a node below the root is reached by two paths, and a node outside the
\* hierarchy of the root is left alone
C9_Witness ==
  /\ propagated /\ args.neighbor_prop = "" /\ carriers(input) = {}
  /\ \E n \in descendants :
       Cardinality(subjects(input, args.hierarchy_prop, n)
                   \cap (descendants \cup {args.src_node})) >= 2
  /\ args.src_node \notin descendants
  /\ \E n \in PropNodes : n \notin descendants /\ n /= args.src_node

\* the call can only fail on a node that has no neighbour to redirect to
lacks_neighbor ==
  /\ args.neighbor_prop /= ""
  /\ \E n \in PropNodes : objects(input, n, args.neighbor_prop) = {}

terminated == propagated \/ (pc = "raised" /\ lacks_neighbor)

\* C10: every call of the propagator ends, whatever the hierarchy (shared
\* sub-trees, cycles) and with or without redirection; it never exceeds the
\* recursion limit.
C10_Terminates == <>terminated

\* a call has returned on a hierarchy with a cycle below the root
C10_Witness ==
  /\ propagated
  /\ \E n \in descendants : n \in path_closure(input, {args.hierarchy_prop}, {n}, {})
  /\ log /= <<>>

-----------------------------------------------------------------------------
(* Strings.  A str is a sequence of one-character strings; a local ID is   *)
(* the sequence of its "_"-separated segments, so that "E42_17" is         *)
(* <<"E42", <<"1", "7">>>>: split("_")[0] is its first segment and         *)
(* rsplit("_", 1)[-1] its last.                                            *)
digits == <<"0", "1", "2", "3", "4", "5", "6", "7", "8", "9">>
isdigit(c) == \E i \in DOMAIN digits : digits[i] = c
digit_value(c) == (CHOOSE i \in DOMAIN digits : digits[i] = c) - 1
ascii_letters ==
  { "a", "b", "c", "d", "e", "f", "g", "h", "i", "j", "k", "l", "m", "n",
    "o", "p", "q", "r", "s", "t", "u", "v", "w", "x", "y", "z",
    "A", "B", "C", "D", "E", "F", "G", "H", "I", "J", "K", "L", "M", "N",
    "O", "P", "Q", "R", "S", "T", "U", "V", "W", "X", "Y", "Z" }

\* str(n) of a non-negative int
RECURSIVE str(_)
str(n) ==
  IF n < 10 THEN <<digits[n + 1]>>
  ELSE str(n \div 10) \o <<digits[(n % 10) + 1]>>

\* s.lstrip(chars)
RECURSIVE lstrip(_, _)
lstrip(s, chars) ==
  IF s /= <<>> /\ Head(s) \in chars THEN lstrip(Tail(s), chars) ELSE s

\* int(s) raises ValueError unless s is a non-empty run of decimal digits
is_int(s) == s /= <<>> /\ \A i \in DOMAIN s : isdigit(s[i])
RECURSIVE int(_)
int(s) ==
  IF Len(s) = 1 THEN digit_value(s[1])
  ELSE 10 * int(SubSeq(s, 1, Len(s) - 1)) + digit_value(s[Len(s)])

\* numpy's max() of a non-empty array
max(S) == CHOOSE x \in S : \A y \in S : y <= x

-----------------------------------------------------------------------------
(* The identifier allocator: make_autoinc_id and import_lkg *)
E41_Appellation == <<"Class", 41>>
E42_Identifier == <<"Class", 42>>
E35_Title == <<"Class", 35>>
E52_Time_Span == <<"Class", 52>>
E21_Person == <<"Class", 21>>
E53_Place == <<"Class", 53>>
F11_Corporate_Body == <<"Class", 11>>
F3_Manifestation == <<"Class", 3>>

\* the local ID of a class URI, in "_"-separated segments
get_id_from_uri(uri) ==
  CASE uri = E41_Appellation -> <<"E41", "Appellation">>
    [] uri = E42_Identifier -> <<"E42", "Identifier">>
    [] uri = E35_Title -> <<"E35", "Title">>
    [] uri = E52_Time_Span -> <<"E52", "Time-Span">>
    [] uri = E21_Person -> <<"E21", "Person">>
    [] uri = E53_Place -> <<"E53", "Place">>
    [] uri = F11_Corporate_Body -> <<"F11", "Corporate", "Body">>
    [] uri = F1_Work -> <<"F1", "Work">>
    [] uri = F2_Expression -> <<"F2", "Expression">>
    [] uri = F3_Manifestation -> <<"F3", "Manifestation">>

\* id.split("_")[0]
get_class_prefix(id) == id[1]

simple_ids == <<E41_Appellation, E42_Identifier, E35_Title, E52_Time_Span>>
order_ids == <<F1_Work, F2_Expression, F3_Manifestation>>
prefixed_ids == <<E21_Person, E53_Place, F11_Corporate_Body>>

\* the value of an xsd:float literal is kept in halves: xsd_float(5) is 2.5
xsd_float(halves) == <<"float", halves>>
\* numpy's conversion of a float to dtype=int truncates towards zero
float_to_int(halves) == IF halves >= 0 THEN halves \div 2 ELSE -((-halves) \div 2)

\* d[k] = v on a dict
setitem(d, k, v) == [ q \in DOMAIN d \cup {k} |-> IF q = k THEN v ELSE d[q] ]

\* the entity IDs' last segments with their leading letters stripped
id_suffixes(g, i) ==
  { lstrip(e[Len(e)], ascii_letters) : e \in subjects(g, RDF_type, i) }
\* np.char.rsplit of an empty list, astype(int) of a non-number and max() of
\* an empty array raise
id_numbers_raise(g, i) ==
  subjects(g, RDF_type, i) = {} \/ \E x \in id_suffixes(g, i) : ~is_int(x)
id_numbers(g, i) == { int(x) : x \in id_suffixes(g, i) }

order_numbers_raise(g, i) ==
  \/ subjects(g, RDF_type, i) = {}
  \/ \E e \in subjects(g, RDF_type, i) : value(g, e, ORDERLABEL) = None
order_numbers(g, i) ==
  { float_to_int(value(g, e, ORDERLABEL)[2]) : e \in subjects(g, RDF_type, i) }

\* the counter import_lkg restores from the numbers of a class
\* variant: counts the entities instead
restored_count_len(numbers) == Cardinality(numbers)
restored_count(numbers) == max(numbers) + 1

\* the first for-loop of import_lkg from the classes ids on: the dict it
\* leaves and whether it raised
RECURSIVE restore_ids(_, _, _)
restore_ids(g, d, ids) ==
  IF ids = <<>> THEN [counts |-> d, raised |-> FALSE]
  ELSE LET i == Head(ids)
           prefix == get_class_prefix(get_id_from_uri(i))
       IN IF id_numbers_raise(g, i) THEN [counts |-> d, raised |-> TRUE]
          ELSE restore_ids(g, setitem(d, prefix, restored_count(id_numbers(g, i))), Tail(ids))

\* the second for-loop of import_lkg
RECURSIVE restore_orders(_, _, _)
restore_orders(g, d, ids) ==
  IF ids = <<>> THEN [counts |-> d, raised |-> FALSE]
  ELSE LET i == Head(ids)
           prefix == get_class_prefix(get_id_from_uri(i))
       IN IF order_numbers_raise(g, i) THEN [counts |-> d, raised |-> TRUE]
          ELSE restore_orders(g, setitem(d, prefix, restored_count(order_numbers(g, i))), Tail(ids))

\* import_lkg on the parsed graph g with the dict d
import_lkg(g, d) ==
  LET first == restore_ids(g, d, simple_ids \o prefixed_ids)
  IN IF first.raised THEN first ELSE restore_orders(g, first.counts, order_ids)

\* f"{prefix}_{count}"
autoinc_uri(prefix, count) == <<prefix, str(count)>>

RECURSIVE total(_, _)
total(d, keys) ==
  IF keys = {} THEN 0
  ELSE LET k == CHOOSE q \in keys : TRUE IN d[k] + total(d, keys \ {k})
\* variant: keeps one counter for all prefixes
make_autoinc_id_shared(d, prefix) ==
  [ uri |-> autoinc_uri(prefix, total(d, DOMAIN d)),
    counts |-> setitem(d, prefix, IF prefix \in DOMAIN d THEN d[prefix] + 1 ELSE 1) ]
\* make_autoinc_id(prefix) on the dict d: the ID it returns and the dict it
\* leaves
make_autoinc_id(d, prefix) ==
  LET d0 == IF prefix \in DOMAIN d THEN d ELSE setitem(d, prefix, 0)
  IN [ uri |-> autoinc_uri(prefix, d0[prefix]),
       counts |-> setitem(d0, prefix, d0[prefix] + 1) ]

(* Inputs: the calls of one process and the persisted graphs it loads *)
MaxCalls == 4         \* allocator calls in one behaviour
MaxImports == 1       \* calls of import_lkg among them
MaxIdNumber == 3      \* largest number in a persisted entity ID
MaxEntities == 2      \* entities of the class a persisted graph varies

\* the prefixes make_autoinc_id is called with
AllocPrefixes == { "E42", "E35", "E21", "F2" }

\* last segments of persisted entity IDs: letters and a number, and two that
\* are no number once the letters are stripped
Suffixes(letters) ==
  { letters \o str(n) : n \in 0..MaxIdNumber }
    \cup { letters \o <<"x">>, letters \o <<"1", "x">> }
\* the ORDERLABEL values of a persisted class, in halves: build_monographs
\* gives an umbrella Expression the label of its first volume less 0.5
OrderLabels ==
  { H \in subsets_upto(0..(2 * MaxIdNumber), MaxEntities) :
      \A h \in H : h % 2 = 1 => h + 1 \in H }

id_entities(i, S) ==
  { <<e, RDF_type, i>> : e \in { <<get_class_prefix(get_id_from_uri(i)), x>> : x \in S } }
order_entities(i, H) ==
  UNION { { <<e, RDF_type, i>>, <<e, ORDERLABEL, xsd_float(e[2])>> } :
          e \in { <<get_class_prefix(get_id_from_uri(i)), h>> : h \in H } }

\* a persisted graph: one entity numbered 0 in every class, but for the class
\* vary, whose entities are those of content
persisted(vary, content) ==
  UNION ( { IF i = vary THEN id_entities(i, content) ELSE id_entities(i, { <<"0">> }) :
            i \in { simple_ids[k] : k \in DOMAIN simple_ids } }
          \cup { IF i = vary THEN id_entities(i, content) ELSE id_entities(i, { <<"P", "0">> }) :
                 i \in { prefixed_ids[k] : k \in DOMAIN prefixed_ids } }
          \cup { IF i = vary THEN order_entities(i, content) ELSE order_entities(i, { 0 }) :
                 i \in { order_ids[k] : k \in DOMAIN order_ids } } )

PersistedGraphs ==
  { persisted(E42_Identifier, S) : S \in subsets_upto(Suffixes(<<>>), MaxEntities) }
    \cup { persisted(E21_Person, S) : S \in subsets_upto(Suffixes(<<"P">>), MaxEntities) }
    \cup { persisted(F2_Expression, H) : H \in OrderLabels }

imports == Cardinality({ k \in DOMAIN calls : calls[k].op = "import_lkg" })

InitAlloc ==
  /\ pc = "idle"
  /\ autoinc_id_counts = EmptyDict
  /\ calls = <<>>
  /\ graph = {} /\ input = {} /\ todo = {} /\ order = None
  /\ idle_works /\ idle_prop /\ idle_refs

\* make_autoinc_id(prefix)
MakeAutoincId ==
  /\ pc = "idle"
  /\ Len(calls) < MaxCalls
  /\ \E prefix \in AllocPrefixes :
       LET r == make_autoinc_id(autoinc_id_counts, prefix)
       IN /\ autoinc_id_counts' = r.counts
          /\ calls' = Append(calls, [op |-> "make_autoinc_id", prefix |-> prefix, uri |-> r.uri])
  /\ UNCHANGED <<graph, input, pc, todo, gw, counts, runs, stack, args, log, order, refs>>

\* import_lkg(path), path holding the persisted graph g
ImportLkg ==
  /\ pc = "idle"
  /\ Len(calls) < MaxCalls
  /\ imports < MaxImports
  /\ \E g \in PersistedGraphs :
       LET r == import_lkg(g, autoinc_id_counts)
       IN /\ graph' = g
          /\ autoinc_id_counts' = r.counts
          /\ pc' = IF r.raised THEN "raised" ELSE "idle"
          /\ calls' = Append(calls, [op |-> "import_lkg", before |-> autoinc_id_counts])
  /\ UNCHANGED <<input, todo, gw, counts, runs, stack, args, log, order, refs>>

NextAlloc == MakeAutoincId \/ ImportLkg

SpecAlloc == InitAlloc /\ [][NextAlloc]_vars

-----------------------------------------------------------------------------
(* Properties of the identifier allocator *)
allocations == { k \in DOMAIN calls : calls[k].op = "make_autoinc_id" }
\* the number an allocated ID ends in
allocated_number(k) == int(calls[k].uri[2])

\* C11: over any sequence of make_autoinc_id and import_lkg calls of one
\* process, the numbers allocated for a prefix strictly increase, so no ID
\* is returned twice.
C11_AllocatedNumbersIncrease ==
  \A j \in allocations : \A k \in allocations :
    (j < k /\ calls[j].prefix = calls[k].prefix)
      => allocated_number(j) < allocated_number(k)

\* the class import_lkg restores the prefix from
class_of(prefix) ==
  CHOOSE i \in { (simple_ids \o prefixed_ids \o order_ids)[k] : k \in 1..10 } :
    get_class_prefix(get_id_from_uri(i)) = prefix
is_order_class(i) == \E k \in DOMAIN order_ids : order_ids[k] = i
\* the numbers n below bound for which an entity of the class is written as
\* letters followed by n
written_numbers(g, i, bound) ==
  { n \in 0..bound :
      \E e \in subjects(g, RDF_type, i) : \E cut \in 0..Len(e[Len(e)]) :
        /\ \A c \in 1..cut : e[Len(e)][c] \in ascii_letters
        /\ SubSeq(e[Len(e)], cut + 1, Len(e[Len(e)])) = str(n) }
\* the ORDERLABEL values of the class, in halves
order_labels(g, i) ==
  { o[2] : o \in UNION { objects(g, e, ORDERLABEL) : e \in subjects(g, RDF_type, i) } }
\* the index of the last import_lkg before call k, 0 if there is none
last_import(k) ==
  LET before == { j \in 1..(k - 1) : calls[j].op = "import_lkg" }
  IN IF before = {} THEN 0 ELSE max(before)
\* call k is the first allocation for its prefix since the last import_lkg
first_since_import(k) ==
  /\ k \in allocations
  /\ last_import(k) > 0
  /\ last_import(k) = max({ j \in DOMAIN calls : calls[j].op = "import_lkg" })
  /\ \A j \in (last_import(k) + 1)..(k - 1) : calls[j].prefix /= calls[k].prefix

\* C12: after import_lkg has loaded a persisted graph, the first ID
\* allocated for a restored prefix has the number max(existing) + 1: it
\* exceeds every number of that prefix in the loaded graph, and the number
\* before it is in the loaded graph.
C12_ResumeContinuesAfterMax ==
  \A k \in DOMAIN calls :
    first_since_import(k) =>
      LET i == class_of(calls[k].prefix)
          n == allocated_number(k)
      IN IF is_order_class(i)
         THEN /\ \A h \in order_labels(graph, i) : h < 2 * n
              /\ 2 * (n - 1) \in order_labels(graph, i)
         ELSE /\ written_numbers(graph, i, n + MaxIdNumber) \subseteq 0..(n - 1)
              /\ n - 1 \in written_numbers(graph, i, n + MaxIdNumber)

\* a graph whose persons go up to the largest number was loaded and the next
\* person ID allocated
C12_Witness ==
  /\ Len(calls) >= 2
  /\ calls[Len(calls) - 1].op = "import_lkg"
  /\ calls[Len(calls)].op = "make_autoinc_id"
  /\ calls[Len(calls)].uri = <<"E21", str(MaxIdNumber + 1)>>
  /\ Cardinality(subjects(graph, RDF_type, E21_Person)) = MaxEntities

\* an entity of a class restored from its IDs whose last segment is not a
\* number, even with its leading letters stripped
malformed(g) ==
  \E k \in 1..7 : \E e \in subjects(g, RDF_type, (simple_ids \o prefixed_ids)[k]) :
    ~is_int(lstrip(e[Len(e)], ascii_letters))

\* C13: if import_lkg meets an entity ID whose suffix is not numeric, it
\* fails with an error and the failed call has changed no counter.
C13_FailedResumeChangesNothing ==
  (calls /= <<>> /\ calls[Len(calls)].op = "import_lkg" /\ malformed(graph))
    => /\ pc = "raised"
       /\ autoinc_id_counts = calls[Len(calls)].before

\* C14: without a resume, the k-th call of make_autoinc_id for a prefix
\* returns prefix_(k-1), whatever calls for other prefixes come in between.
C14_KthCallReturnsKMinusOne ==
  imports = 0 =>
    \A k \in allocations :
      calls[k].uri =
        <<calls[k].prefix,
          str(Cardinality({ j \in 1..(k - 1) : calls[j].prefix = calls[k].prefix }))>>

\* E42_0, E42_1, then E35_0
C14_Witness ==
  /\ imports = 0
  /\ Len(calls) >= 3
  /\ calls[1].uri = <<"E42", <<"0">>>>
  /\ calls[2].uri = <<"E42", <<"1">>>>
  /\ calls[3].uri = <<"E35", <<"0">>>>

-----------------------------------------------------------------------------
(* str methods and the re.match patterns of the reference resolver *)
min(S) == CHOOSE x \in S : \A y \in S : x <= y

\* s.startswith(p), s.endswith(p)
startswith(s, p) == Len(p) <= Len(s) /\ SubSeq(s, 1, Len(p)) = p
endswith(s, p) == Len(p) <= Len(s) /\ SubSeq(s, Len(s) - Len(p) + 1, Len(s)) = p

\* the positions where sep occurs in s
occurrences(s, sep) ==
  { i \in 1..(Len(s) - Len(sep) + 1) : SubSeq(s, i, i + Len(sep) - 1) = sep }
\* sep in s
contains(s, sep) == occurrences(s, sep) /= {}

\* s.split(sep)
RECURSIVE split(_, _)
split(s, sep) ==
  IF ~contains(s, sep) THEN <<s>>
  ELSE LET i == min(occurrences(s, sep))
       IN <<SubSeq(s, 1, i - 1)>> \o split(SubSeq(s, i + Len(sep), Len(s)), sep)
\* s.split(sep, 1)
split1(s, sep) ==
  IF ~contains(s, sep) THEN <<s>>
  ELSE LET i == min(occurrences(s, sep))
       IN <<SubSeq(s, 1, i - 1), SubSeq(s, i + Len(sep), Len(s))>>
\* s.rsplit(sep, 1)
rsplit1(s, sep) ==
  IF ~contains(s, sep) THEN <<s>>
  ELSE LET i == max(occurrences(s, sep))
       IN <<SubSeq(s, 1, i - 1), SubSeq(s, i + Len(sep), Len(s))>>

\* s.rstrip(chars), s.strip(chars)
RECURSIVE rstrip(_, _)
rstrip(s, chars) ==
  IF s /= <<>> /\ s[Len(s)] \in chars THEN rstrip(SubSeq(s, 1, Len(s) - 1), chars) ELSE s
strip(s, chars) == rstrip(lstrip(s, chars), chars)
whitespace == { " " }

\* sep.join(list)
RECURSIVE join(_, _)
join(list, sep) ==
  IF list = <<>> THEN <<>>
  ELSE IF Len(list) = 1 THEN list[1]
  ELSE list[1] \o sep \o join(Tail(list), sep)
\* s.split(): the runs of non-whitespace
words(s) == SelectSeq(split(s, <<" ">>), LAMBDA w : w /= <<>>)

\* the longest prefix of s made of chars
RECURSIVE span(_, _)
span(s, chars) ==
  IF s /= <<>> /\ Head(s) \in chars THEN <<Head(s)>> \o span(Tail(s), chars) ELSE <<>>
digit_chars == { digits[i] : i \in DOMAIN digits }
\* re.match(r"[A-Za-z]+", s) and re.match(r"\d+", s): the matched text, <<>>
\* when there is no match
match_letters(s) == span(s, ascii_letters)
match_digits(s) == span(s, digit_chars)
\* s.isnumeric()
isnumeric(s) == is_int(s)

\* variant: leaves the last number out: range(f, l)
RECURSIVE numbered_exclusive(_, _, _)
numbered_exclusive(head, f, l) ==
  IF f >= l THEN <<>>
  ELSE <<head \o <<".">> \o str(f)>> \o numbered_exclusive(head, f + 1, l)

\* [f"{head}.{x}" for x in range(f, l + 1)]
RECURSIVE numbered(_, _, _)
numbered(head, f, l) ==
  IF f > l THEN <<>> ELSE <<head \o <<".">> \o str(f)>> \o numbered(head, f + 1, l)

-----------------------------------------------------------------------------
(* The reference resolver of utils.py: expand_range and normalize_ref.  A  *)
(* result is [raised, out]: whether the call raised, and what it returned. *)
range_sign == "÷"
raised_result == [raised |-> TRUE, out |-> <<>>]
returns(x) == [raised |-> FALSE, out |-> x]

\* expand_range(src)
expand_range(src) ==
  IF ~contains(src, <<range_sign>>) THEN returns(<<src>>)
  ELSE LET bounds == split1(src, <<range_sign>>)
           first == rsplit1(bounds[1], <<".">>)
           last == rsplit1(bounds[2], <<".">>)
       IN IF Len(first) /= 2 \/ Len(last) /= 2 THEN raised_result
          ELSE IF ~is_int(first[2]) \/ ~is_int(last[2]) THEN raised_result
          ELSE returns(numbered(first[1], int(first[2]), int(last[2])))

\* the IDs normalize_ref appends for the ";"-separated parts after the first
RECURSIVE chapter_refs(_, _)
chapter_refs(head, allparts) ==
  IF allparts = <<>> THEN <<>>
  ELSE LET nump == match_digits(Head(allparts))
       IN (IF nump /= <<>> THEN <<head \o <<".">> \o nump>> ELSE <<>>)
            \o chapter_refs(head, Tail(allparts))

\* variant: keeps only the digits of a chapter, as the range branch does
expand_sref_digits(sref) ==
  LET parts == split(sref, <<range_sign>>)
  IN IF Len(parts) > 1
     THEN LET idfirst == rsplit1(parts[1], <<".">>)
              idlast == rsplit1(parts[Len(parts)], <<".">>)
              allparts == split(idlast[Len(idlast)], <<";">>)
              numf == match_digits(idfirst[Len(idfirst)])
              numl == match_digits(allparts[1])
          IN returns(chapter_refs(idfirst[1], Tail(allparts))
                       \o (IF numf /= <<>> /\ numl /= <<>>
                           THEN numbered(idfirst[1], int(numf), int(numl)) ELSE <<>>))
     ELSE IF contains(sref, <<";">>)
     THEN LET halves == split1(sref, <<".">>)
          IN IF Len(halves) /= 2 THEN raised_result
             ELSE returns(chapter_refs(halves[1], split(halves[2], <<";">>)))
     ELSE IF ~endswith(sref, <<"?">>) THEN returns(<<sref>>) ELSE returns(<<>>)

\* lines 135-159 of normalize_ref: the IDs a prefixed sref adds to refs
expand_sref(sref) ==
  LET parts == split(sref, <<range_sign>>)
  IN IF Len(parts) > 1
     THEN LET idfirst == rsplit1(parts[1], <<".">>)
              idlast == rsplit1(parts[Len(parts)], <<".">>)
              allparts == split(idlast[Len(idlast)], <<";">>)
              lastid == allparts[1]
              numf == match_digits(idfirst[Len(idfirst)])
              numl == match_digits(lastid)
          IN returns(chapter_refs(idfirst[1], Tail(allparts))
                       \o (IF numf /= <<>> /\ numl /= <<>>
                           THEN numbered(idfirst[1], int(numf), int(numl)) ELSE <<>>))
     ELSE IF contains(sref, <<";">>)
     THEN LET halves == split1(sref, <<".">>)
          IN IF Len(halves) /= 2 THEN raised_result
             ELSE LET subids == split(halves[2], <<";">>)
                  IN returns([ k \in DOMAIN subids |-> halves[1] \o <<".">> \o subids[k] ])
     ELSE IF ~endswith(sref, <<"?">>) THEN returns(<<sref>>) ELSE returns(<<>>)

\* lines 121-124: the prefix of a sref that starts with a digit
default_prefix(prefix_default, prefix_nf, lang_prefixes, prefix_other) ==
  IF prefix_default \in lang_prefixes THEN prefix_nf \o prefix_default
  ELSE prefix_other \o prefix_default

\* one iteration of the inner loop of normalize_ref: the IDs it adds to refs
normalize_sref(sref, prefix_default, prefix_nf, lang_prefixes, prefix_other) ==
  IF strip(sref, whitespace) = <<>> THEN returns(<<>>)
  ELSE IF isdigit(sref[1])
  THEN expand_sref(default_prefix(prefix_default, prefix_nf, lang_prefixes, prefix_other) \o sref)
  ELSE LET prefix == match_letters(sref)
           number == strip(SubSeq(sref, Len(prefix) + 1, Len(sref)), { ":" })
       IN IF prefix = <<>> THEN raised_result
          ELSE IF prefix \notin lang_prefixes THEN returns(<<>>)
          ELSE expand_sref(prefix_nf \o prefix \o number)

\* the loops of normalize_ref over the srefs, in order
RECURSIVE normalize_srefs(_, _, _, _, _)
normalize_srefs(srefs, prefix_default, prefix_nf, lang_prefixes, prefix_other) ==
  IF srefs = <<>> THEN returns(<<>>)
  ELSE LET first == normalize_sref(Head(srefs), prefix_default, prefix_nf, lang_prefixes, prefix_other)
           rest == normalize_srefs(Tail(srefs), prefix_default, prefix_nf, lang_prefixes, prefix_other)
       IN IF first.raised \/ rest.raised THEN raised_result
          ELSE returns(first.out \o rest.out)

\* [sref for subref in sourceref.split(", ") for sref in subref.split("+")]
RECURSIVE flatten(_)
flatten(lists) == IF lists = <<>> THEN <<>> ELSE Head(lists) \o flatten(Tail(lists))
srefs_of(sourceref) ==
  LET subrefs == split(sourceref, <<",", " ">>)
  IN flatten([ k \in DOMAIN subrefs |-> split(subrefs[k], <<"+">>) ])

\* normalize_ref(sourceref, prefix_default, prefix_nf, lang_prefixes, prefix_other)
normalize_ref(sourceref, prefix_default, prefix_nf, lang_prefixes, prefix_other) ==
  LET r == normalize_srefs(srefs_of(sourceref), prefix_default, prefix_nf, lang_prefixes, prefix_other)
  IN IF r.raised THEN r ELSE returns(join(r.out, <<" ">>))

-----------------------------------------------------------------------------
(* The reference resolver of extract.py: _nf_row_normalize_refs *)
up_arrow == "↑"

\* the body of the innermost loop for the ref of plus[i]; st holds
\* prev_prefix (<<>> is None), normalparts and normalrefs
nf_ref_step(st, plus, i, ref, prefix_nf, prefix_lang, lang_prefixes, prefix_other) ==
  LET sref == plus[i]
      \* lines 504-518, for the prefixed ref and the prev_prefix to keep
      expand(r, prev) ==
        LET parts == split(r, <<range_sign>>)
        IN IF Len(parts) > 1
           THEN LET idfirst == rsplit1(parts[1], <<".">>)
                    idlast == rsplit1(parts[Len(parts)], <<".">>)
                IN IF ~isnumeric(idfirst[Len(idfirst)]) \/ ~isnumeric(idlast[Len(idlast)])
                   THEN [st EXCEPT !.prev_prefix = prev]
                   ELSE LET comps == numbered(idfirst[1], int(idfirst[Len(idfirst)]),
                                              int(idlast[Len(idlast)]))
                        IN IF startswith(parts[1], prefix_nf \o prefix_lang)
                           THEN [st EXCEPT !.prev_prefix = prev,
                                           !.normalparts = st.normalparts \o comps]
                           ELSE [st EXCEPT !.prev_prefix = prev,
                                           !.normalrefs = st.normalrefs \o comps]
           ELSE IF ~endswith(sref, <<"?">>) /\ ~startswith(r, prefix_other)
                THEN [st EXCEPT !.prev_prefix = prev, !.normalrefs = Append(st.normalrefs, r)]
                ELSE [st EXCEPT !.prev_prefix = prev]
  IN IF ref = <<>> THEN [st EXCEPT !.raised = TRUE]
     ELSE IF ref[1] = "."
     THEN LET before == plus[IF i = 1 THEN Len(plus) ELSE i - 1]
              prefix == IF st.prev_prefix /= <<>> THEN st.prev_prefix ELSE prefix_lang
          IN expand(prefix_nf \o prefix \o split(before, <<".">>)[1] \o ref, st.prev_prefix)
     ELSE IF isdigit(ref[1])
     THEN LET prev == IF st.prev_prefix = <<>> THEN prefix_lang ELSE st.prev_prefix
          IN expand(prefix_nf \o prev \o ref, prev)
     ELSE LET matched == match_letters(ref)
              prefix == IF matched = <<>> THEN st.prev_prefix ELSE matched
              number == IF matched = <<>>
                        THEN SubSeq(ref, Len(span(ref, { c \in { ref[k] : k \in DOMAIN ref } : ~isdigit(c) })) + 1, Len(ref))
                        ELSE strip(SubSeq(ref, Len(matched) + 1, Len(ref)), { ":" })
          IN IF prefix = <<>> THEN st
             ELSE IF prefix \notin lang_prefixes THEN [st EXCEPT !.prev_prefix = prefix]
             ELSE expand(prefix_nf \o prefix \o number, prefix)

\* the refs of plus[i], in the order the two inner loops visit them
nf_refs_of(sref) ==
  LET crefs == split(sref, <<";", " ">>)
  IN flatten([ k \in DOMAIN crefs |-> split(crefs[k], <<",", " ">>) ])

RECURSIVE nf_loop(_, _, _, _, _, _, _, _)
\* the three loops from the refs todo of plus[i] on
nf_loop(st, plus, i, todo_refs, prefix_nf, prefix_lang, lang_prefixes, prefix_other) ==
  IF st.raised THEN st
  ELSE IF todo_refs /= <<>>
  THEN nf_loop(nf_ref_step(st, plus, i, Head(todo_refs), prefix_nf, prefix_lang, lang_prefixes, prefix_other),
               plus, i, Tail(todo_refs), prefix_nf, prefix_lang, lang_prefixes, prefix_other)
  ELSE IF i < Len(plus)
  THEN nf_loop(st, plus, i + 1, nf_refs_of(plus[i + 1]), prefix_nf, prefix_lang, lang_prefixes, prefix_other)
  ELSE st

\* _nf_row_normalize_refs(row, ...) for row["refs"] = rowrefs
nf_row_normalize_refs(rowrefs, prefix_nf, prefix_lang, lang_prefixes, prefix_other) ==
  LET text == IF startswith(rowrefs, <<up_arrow>>)
              THEN split(strip(rowrefs, { up_arrow }), <<" ", "(">>)[1] ELSE <<>>
      plus == IF text /= <<>> THEN split(text, <<"+">>) ELSE <<>>
      st0 == [prev_prefix |-> <<>>, normalparts |-> <<>>, normalrefs |-> <<>>, raised |-> FALSE]
      st == IF plus = <<>> THEN st0
            ELSE nf_loop(st0, plus, 1, nf_refs_of(plus[1]), prefix_nf, prefix_lang, lang_prefixes, prefix_other)
  IN IF st.raised THEN raised_result
     ELSE returns(<<join(st.normalparts, <<" ">>), join(st.normalrefs, <<" ">>)>>)

-----------------------------------------------------------------------------
(* Inputs of the reference resolver: raw tokens of one or two sub-tokens    *)
MaxPart == 3          \* largest last segment of a referenced ID

PREFIX_NONFICTION == <<"N", "F">>
PREFIX_OTHER == <<"O", "T", "H">>
\* the language prefixes of the nonfiction sheets, and a prefix that is none
lang_list == { <<"P", "L">>, <<"E", "N">> }
SheetPrefixes == { <<"P", "L">>, <<"X", "X">> }

\* a sub-token is [prefix] main "." a [tail] [suffix]; the tail is a range
\* "÷9.b" or one further chapter ";b"
Tails == { [kind |-> k, b |-> b] : k \in { "range", "chapter" }, b \in 1..MaxPart }
           \cup { [kind |-> "none", b |-> 0] }
tail_text(t) ==
  CASE t.kind = "none" -> <<>>
    [] t.kind = "range" -> <<range_sign, "9", ".">> \o str(t.b)
    [] t.kind = "chapter" -> <<";">> \o str(t.b)
sub_text(s) == s.prefix \o s.main \o <<".">> \o str(s.a) \o tail_text(s.tail) \o s.suffix

SubTokens ==
  [ prefix : { <<>> } \cup SheetPrefixes,
    main : { <<"4">>, <<"3", "5", ".", "9">> },
    a : 1..MaxPart,
    tail : Tails,
    suffix : { <<>>, <<"-">>, <<">">>, <<"<">>, <<"!">>, <<"?">> } ]
\* the sub-tokens written next to another one in a list
Companions ==
  [ prefix : { <<>>, <<"X", "X">> },
    main : { <<"5">> },
    a : { 1 },
    tail : { [kind |-> "none", b |-> 0] },
    suffix : { <<>>, <<"?">> } ]
Separators == { <<",", " ">>, <<"+">> }

\* the sub-tokens of a raw token and the separator between them
TokenShapes ==
  { [subs |-> <<s>>, sep |-> <<>>] : s \in SubTokens }
    \cup { [subs |-> <<s, c>>, sep |-> sep] : s \in SubTokens, c \in Companions, sep \in Separators }
    \cup { [subs |-> <<c, s>>, sep |-> sep] : s \in SubTokens, c \in Companions, sep \in Separators }
token_text(shape) ==
  join([ k \in DOMAIN shape.subs |-> sub_text(shape.subs[k]) ], shape.sep)

InitResolve ==
  /\ pc = "resolve"
  /\ \E shape \in TokenShapes : \E prefix_default \in SheetPrefixes :
       args = [ sourceref |-> token_text(shape), prefix_default |-> prefix_default,
                shape |-> shape ]
  /\ refs = <<>>
  /\ graph = {} /\ input = {} /\ todo = {} /\ order = None
  /\ gw = {} /\ counts = 0 /\ runs = 0 /\ stack = <<>> /\ log = <<>>
  /\ idle_alloc

\* utils.normalize_ref(cell, last_prefix, prefix_nf, lang_list, prefix_other)
NormalizeRef ==
  /\ pc = "resolve"
  /\ refs' = normalize_ref(args.sourceref, args.prefix_default, PREFIX_NONFICTION,
                           lang_list, PREFIX_OTHER)
  /\ pc' = "normalize_ref"
  /\ UNCHANGED <<graph, input, todo, gw, counts, runs, stack, args, log, order, autoinc_id_counts, calls>>

\* _nf_row_normalize_refs of a row of the nonfiction sheet prefix_default
\* whose refs cell is the token after an up arrow
NfRowNormalizeRefs ==
  /\ pc = "resolve"
  /\ args.prefix_default \in lang_list
  /\ refs' = nf_row_normalize_refs(<<up_arrow>> \o args.sourceref, PREFIX_NONFICTION,
                                   args.prefix_default, lang_list, PREFIX_OTHER)
  /\ pc' = "_nf_row_normalize_refs"
  /\ UNCHANGED <<graph, input, todo, gw, counts, runs, stack, args, log, order, autoinc_id_counts, calls>>

\* utils.expand_range(row["yid_sub"])
ExpandRange ==
  /\ pc = "resolve"
  /\ refs' = expand_range(args.sourceref)
  /\ pc' = "expand_range"
  /\ UNCHANGED <<graph, input, todo, gw, counts, runs, stack, args, log, order, autoinc_id_counts, calls>>

NextResolve == NormalizeRef \/ NfRowNormalizeRefs \/ ExpandRange

SpecResolve == InitResolve /\ [][NextResolve]_vars

-----------------------------------------------------------------------------
(* Properties of the reference resolver *)
single == Len(args.shape.subs) = 1
the_sub == args.shape.subs[1]
\* the sub-token has no prefix or the prefix of a nonfiction sheet
recognized(s) == s.prefix = <<>> \/ s.prefix \in lang_list
\* the namespace and sheet prefix an ID of the sub-token belongs under
namespace(s) ==
  IF s.prefix /= <<>> THEN PREFIX_NONFICTION \o s.prefix
  ELSE IF args.prefix_default \in lang_list THEN PREFIX_NONFICTION \o args.prefix_default
  ELSE PREFIX_OTHER \o args.prefix_default
\* head.a, head.(a+1), ..., head.b
ascending(head, a, b) ==
  [ k \in 1..(IF b >= a THEN b - a + 1 ELSE 0) |-> head \o <<".">> \o str(a + k - 1) ]

\* C17: the range M.a÷x.b expands to M.a, ..., M.b in ascending order with M
\* held fixed; expand_range returns a string without ÷ as its only element;
\* normalize_ref expands the range to the same IDs under the namespace prefix.
C17_RangeExpansion ==
  /\ (pc = "expand_range" /\ single /\ the_sub.suffix = <<>> /\ the_sub.tail.kind = "range")
       => /\ ~refs.raised
          /\ refs.out = ascending(the_sub.prefix \o the_sub.main, the_sub.a, the_sub.tail.b)
  /\ (pc = "expand_range"
        /\ \A k \in DOMAIN args.shape.subs : args.shape.subs[k].tail.kind /= "range")
       => refs = returns(<<args.sourceref>>)
  /\ (pc = "normalize_ref" /\ single /\ the_sub.suffix = <<>> /\ the_sub.tail.kind = "range"
        /\ recognized(the_sub))
       => /\ ~refs.raised
          /\ words(refs.out)
               = ascending(namespace(the_sub) \o the_sub.main, the_sub.a, the_sub.tail.b)

\* the analogue of "355.9.1÷9.4": 35.9.1 up to the largest last segment
C17_Witness ==
  /\ pc = "expand_range"
  /\ args.sourceref = <<"3", "5", ".", "9", ".", "1", range_sign, "9", ".">> \o str(MaxPart)
  /\ Len(refs.out) = MaxPart
  /\ refs.out[MaxPart] = <<"3", "5", ".", "9", ".">> \o str(MaxPart)

uncertain(s) == s.suffix = <<"?">>
\* the raw token without its sub-tokens that end in "?"
certain_text ==
  join(SelectSeq([ k \in DOMAIN args.shape.subs |->
                     IF uncertain(args.shape.subs[k]) THEN <<>> ELSE sub_text(args.shape.subs[k]) ],
                 LAMBDA t : t /= <<>>),
       args.shape.sep)

\* C18: a sub-token that ends in "?" contributes no reference, wherever it
\* stands, and the other sub-tokens are unaffected: the token resolves to
\* what it resolves to without its sub-tokens that end in "?".
C18_UncertainExcluded ==
  /\ pc = "normalize_ref"
       => refs = normalize_ref(certain_text, args.prefix_default, PREFIX_NONFICTION,
                               lang_list, PREFIX_OTHER)
  /\ pc = "_nf_row_normalize_refs"
       => refs = nf_row_normalize_refs(<<up_arrow>> \o certain_text, PREFIX_NONFICTION,
                                       args.prefix_default, lang_list, PREFIX_OTHER)

relation_suffixes == { <<"-">>, <<">">>, <<"<">>, <<"!">> }
\* normalize_ref has resolved one sub-token that ends in a relation suffix
\* and that it does not drop
suffixed_resolved ==
  /\ pc = "normalize_ref" /\ ~refs.raised
  /\ single /\ recognized(the_sub) /\ the_sub.suffix \in relation_suffixes

\* C19: every ID the resolver outputs for a sub-token carries the
\* sub-token's trailing relation-suffix characters, the IDs expanded from a
\* range or a semicolon sub-list included.
C19_SuffixOnEveryId ==
  suffixed_resolved =>
    \A k \in DOMAIN words(refs.out) : endswith(words(refs.out)[k], the_sub.suffix)

\* the ID ends in a digit: it carries no suffix
bare(w) == w /= <<>> /\ isdigit(w[Len(w)])

\* C19 as amended: a relation suffix stays on the ID it is written after.
\* The ID of a plain sub-token carries it, of the IDs of a semicolon
\* sub-list only the last carries it, the IDs expanded from a range carry
\* none.
C19_SuffixOnLastWrittenId ==
  suffixed_resolved =>
    LET out == words(refs.out)
    IN CASE the_sub.tail.kind = "none" ->
              out = <<namespace(the_sub) \o the_sub.main \o <<".">> \o str(the_sub.a) \o the_sub.suffix>>
         [] the_sub.tail.kind = "chapter" ->
              /\ Len(out) = 2
              /\ bare(out[1])
              /\ endswith(out[2], str(the_sub.tail.b) \o the_sub.suffix)
         [] the_sub.tail.kind = "range" ->
              /\ Len(out) = (IF the_sub.tail.b >= the_sub.a THEN the_sub.tail.b - the_sub.a + 1 ELSE 0)
              /\ \A k \in DOMAIN out : bare(out[k])

C19_Witness ==
  /\ suffixed_resolved
  /\ the_sub.tail.kind = "chapter"
  /\ the_sub.suffix = <<">">>
  /\ Len(words(refs.out)) = 2

\* the references a call of either resolver has output
output_refs ==
  IF pc = "normalize_ref" THEN words(refs.out)
  ELSE words(refs.out[1]) \o words(refs.out[2])
\* w is a number under the nonfiction namespace and a nonfiction sheet
\* prefix, or under the other namespace and a sheet prefix that is none
well_prefixed(w) ==
  \E P \in lang_list \cup SheetPrefixes :
    LET ns == (IF P \in lang_list THEN PREFIX_NONFICTION ELSE PREFIX_OTHER) \o P
    IN /\ startswith(w, ns)
       /\ Len(w) > Len(ns)
       /\ isdigit(w[Len(ns) + 1])

\* C20: every reference the resolver outputs starts with the recognized
\* namespace and a valid sheet prefix, or with the other namespace and a
\* sheet prefix that is not valid; none combines the recognized namespace
\* with an unrecognized sheet prefix.
C20_NamespacePrefix ==
  (pc \in { "normalize_ref", "_nf_row_normalize_refs" } /\ ~refs.raised)
    => \A k \in DOMAIN output_refs : well_prefixed(output_refs[k])

-----------------------------------------------------------------------------
(* Authorships: add_authorships *)

\* graph.predicates(subject=s)
predicates_of(g, s) == { t[2] : t \in { u \in g : u[1] = s } }

\* translated_by on a translation for anyone but Lem, written_by otherwise
authorship_prop(g, uri, f2) ==
  IF S761_is_translation_of \in predicates_of(g, f2) /\ uri /= E21_P0
  THEN S143_translated_by
  ELSE S142_written_by

\* variant: the relation is inserted without looking for it
in_graph_unseen(g, t) == FALSE

\* (f28, prop, person) in graph
in_graph(g, t) == t \in g

-----------------------------------------------------------------------------
(* Inputs of add_authorships: the graph add_nonfic leaves (a component      *)
(* forest written in both directions, creation events, Lem's own texts,     *)
(* translations of Expressions of another sheet) and a table of references  *)
(* of persons to Expressions.                                               *)
NumAuthNodes == 3      \* Expressions of the authorship inputs
MaxAuthorships == 2    \* references of the authorship table

AuthNodes == { F2(n) : n \in 1..NumAuthNodes }
People == { E21_P0, Person }
Original == F2(0)

\* parent of each Expression (0: none)
AuthParentMaps ==
  { f \in [1..NumAuthNodes -> 0..(NumAuthNodes - 1)] : \A n \in 1..NumAuthNodes : f[n] < n }

\* the hierarchy triples of add_nonfic, both directions together
component_links(f) ==
  UNION { { <<F2(f[n]), R5_has_component, F2(n)>>, <<F2(n), R5i_is_component_of, F2(f[n])>> }
          : n \in { m \in DOMAIN f : f[m] /= 0 } }

RECURSIVE seqs_upto(_, _)
seqs_upto(S, k) ==
  IF k = 0 THEN { <<>> }
  ELSE LET shorter == seqs_upto(S, k - 1)
       IN shorter \cup { Append(s, x) : s \in shorter, x \in S }

InitAuthorships ==
  /\ \E f \in AuthParentMaps :
     \E translated \in { {} } \cup { {n} : n \in AuthNodes } :
     \E by_lem \in { {}, { F2(1) }, { F2(2) } } :
     \E missing \in { {}, { F2(NumAuthNodes) } } :
       graph = component_links(f)
                 \cup { <<n, R17i_was_created_by, f28_of(n)>> : n \in AuthNodes \ missing }
                 \cup { <<f28_of(n), S142_written_by, E21_P0>> : n \in by_lem \ missing }
                 \cup { <<n, S761_is_translation_of, Original>> : n \in translated }
  /\ todo \in seqs_upto(People \X AuthNodes, MaxAuthorships)
  /\ input = graph
  /\ pc = "add_authorships"
  /\ order = None
  /\ idle_works /\ idle_prop
  /\ idle_alloc
  /\ refs = todo

\* one reference of one person: the guarded graph.add, then the call that
\* propagates the relation up
AddAuthorship ==
  /\ pc = "add_authorships" /\ todo /= <<>>
  /\ LET uri == Head(todo)[1]
         f2 == Head(todo)[2]
         prop == authorship_prop(graph, uri, f2)
         t == <<f28_of(f2), prop, uri>>
     IN /\ graph' = IF in_graph(graph, t) THEN graph ELSE graph \cup {t}
        /\ log' = IF in_graph(graph, t) THEN log ELSE Append(log, t[1])
        /\ args' = [src_node |-> f2, hierarchy_prop |-> R5i_is_component_of,
                    predicate |-> prop, object |-> uri,
                    neighbor_prop |-> R17i_was_created_by]
        /\ stack' = << linked(graph', f2, R5i_is_component_of) >>
  /\ todo' = Tail(todo)
  /\ pc' = "propagate"
  /\ UNCHANGED <<input, gw, counts, runs, order, autoinc_id_counts, calls, refs>>

\* the first call has returned: the call that propagates the relation down
PropagateDown ==
  /\ pc = "propagated" /\ args.hierarchy_prop = R5i_is_component_of
  /\ args' = [args EXCEPT !.hierarchy_prop = R5_has_component]
  /\ stack' = << linked(graph, args.src_node, R5_has_component) >>
  /\ pc' = "propagate"
  /\ UNCHANGED <<graph, input, todo, gw, counts, runs, log, order, autoinc_id_counts, calls, refs>>

\* the second call has returned: the next reference
NextAuthorship ==
  /\ pc = "propagated" /\ args.hierarchy_prop = R5_has_component
  /\ pc' = "add_authorships"
  /\ UNCHANGED <<graph, input, todo, gw, counts, runs, stack, args, log, order, autoinc_id_counts, calls, refs>>

\* the table is exhausted
AddAuthorshipsReturn ==
  /\ pc = "add_authorships" /\ todo = <<>>
  /\ pc' = "authorships_added"
  /\ UNCHANGED <<graph, input, todo, gw, counts, runs, stack, args, log, order, autoinc_id_counts, calls, refs>>

\* the direct relation is in the graph before either propagation starts, so
\* the wildcard lookup of a node without creation event finds it and the
\* node is skipped: graph.add is never reached with None here
NextAuthorships ==
  \/ AddAuthorship
  \/ PropagateSkip
  \/ PropagateAttach
  \/ PropagateReturn
  \/ PropagateDown
  \/ NextAuthorship
  \/ AddAuthorshipsReturn

SpecAuthorships == InitAuthorships /\ [][NextAuthorships]_vars

-----------------------------------------------------------------------------
(* Properties of the insertions *)
authorships_added == pc = "authorships_added"

-----------------------------------------------------------------------------
(* Graph construction from the nonfiction sheets: the columns extract.py    *)
(* derives for a row, add_nonfic, and build_monographs.  The graph of the   *)
(* model holds the classes, the creation events, the order keys, the skip   *)
(* markers and the derivative and hierarchy relations; labels, titles,      *)
(* appellations, languages and Manifestations are left out (their IDs are   *)
(* still allocated); of the title only that the Expression has one is kept. *)
R17_created == "R17_created"
\* the path P102_has_title/P190_has_symbolic_content to the title
P102_has_title == "P102_has_title"
F28_Expression_Creation == <<"Class", 28>>

\* REFCHARS.get(c); "" is None
REFCHARS(c) ==
  CASE c = "-" -> SKIP
    [] c = ">" -> S763_is_reduced_form_of
    [] c = "<" -> S764_is_extended_form_of
    [] c = "!" -> S762_is_altered_form_of
    [] OTHER -> ""

\* nonfic["part_of"] of a row
part_of(yid_lkg) ==
  LET p == rsplit1(split(yid_lkg, <<range_sign>>)[1], <<".">>)[1]
  IN IF p = yid_lkg THEN <<>> ELSE p

\* the while loop over the trailing characters of a reference; ref[-1] of
\* an emptied reference raises
RECURSIVE ref_scan(_, _)
ref_scan(ref, preciserels) ==
  IF ref = <<>> THEN [raised |-> TRUE, skip |-> FALSE, ref |-> ref, preciserels |-> preciserels]
  ELSE IF isdigit(ref[Len(ref)])
  THEN [raised |-> FALSE, skip |-> FALSE, ref |-> ref, preciserels |-> preciserels]
  ELSE LET pr == REFCHARS(ref[Len(ref)])
       IN IF pr = SKIP
          THEN [raised |-> FALSE, skip |-> TRUE, ref |-> ref, preciserels |-> preciserels]
          ELSE ref_scan(SubSeq(ref, 1, Len(ref) - 1),
                        IF pr /= "" THEN Append(preciserels, pr) ELSE preciserels)

\* the Expressions' local IDs of a run, without the class prefix; the URI
\* LKG["F2_" + id] is the node F2(n) of the n-th of them
uri_number(terms, id) == CHOOSE n \in DOMAIN terms : terms[n] = id

\* "Link to source if derivative" for one reference of the row of f2_uri,
\* s the result of the loop over its trailing characters
ref_links_scanned(terms, f2_uri, s, nfprefix, lang) ==
  LET ref == s.ref
      rest == SubSeq(ref, Len(nfprefix) + 1, Len(ref))
      preciserels == IF startswith(ref, nfprefix) /\ match_letters(rest) /= lang
                     THEN Append(s.preciserels, S761_is_translation_of)
                     ELSE s.preciserels
      src_uri == F2(uri_number(terms, ref))
  IN IF s.raised THEN raised_result
     ELSE IF s.skip THEN returns({ <<f2_uri, SKIP, Literal(1)>> })
     ELSE IF startswith(ref, nfprefix) /\ match_letters(rest) = <<>> THEN raised_result
     ELSE IF preciserels = <<>> THEN returns({ <<f2_uri, R76_is_derivative_of, src_uri>> })
     ELSE returns({ <<f2_uri, preciserels[k], src_uri>> : k \in DOMAIN preciserels })
ref_links(terms, f2_uri, ref, nfprefix, lang) ==
  ref_links_scanned(terms, f2_uri, ref_scan(ref, <<>>), nfprefix, lang)
\* for ref in row["refs_normal"].split()
row_links(terms, f2_uri, refs_normal, nfprefix, lang) ==
  [ k \in DOMAIN refs_normal |-> ref_links(terms, f2_uri, refs_normal[k], nfprefix, lang) ]

\* the order key Literal(make_autoinc_id(prefix).split("_")[-1], datatype=XSD.float)
order_key(uri) == xsd_float(2 * int(uri[Len(uri)]))

\* the counters after make_autoinc_id of each prefix in turn
RECURSIVE allocate_all(_, _)
allocate_all(d, prefixes) ==
  IF prefixes = <<>> THEN d
  ELSE allocate_all(make_autoinc_id(d, Head(prefixes)).counts, Tail(prefixes))

\* "Link to parts" and "Link to parent if child": both directions together
component_pair(parent, child) ==
  { <<parent, R5_has_component, child>>, <<child, R5i_is_component_of, parent>> }

\* "Link to parts"
add_nonfic_parts(terms, f2_uri, has_part) ==
  UNION { component_pair(f2_uri, F2(uri_number(terms, has_part[k]))) : k \in DOMAIN has_part }

\* one iteration of the loop of add_nonfic for a row whose has_part and
\* part_of columns and whose links to its sources are given; made is the
\* result of make_autoinc_id("F2")
add_nonfic_graph(terms, g, d, f2_uri, by_lem, has_part, links, parent, made) ==
  IF \E k \in DOMAIN links : links[k].raised
  THEN [raised |-> TRUE, g |-> g, counts |-> d]
  ELSE [raised |-> FALSE,
        g |-> g \cup { <<f2_uri, RDF_type, F2_Expression>>,
                       <<f2_uri, P102_has_title, Literal(0)>>,
                       <<f28_of(f2_uri), RDF_type, F28_Expression_Creation>>,
                       <<f28_of(f2_uri), R17_created, f2_uri>>,
                       <<f2_uri, R17i_was_created_by, f28_of(f2_uri)>>,
                       <<f2_uri, ORDERLABEL, order_key(made.uri)>> }
                \cup (IF by_lem THEN { <<f28_of(f2_uri), S142_written_by, E21_P0>> } ELSE {})
                \cup UNION { links[k].out : k \in DOMAIN links }
                \cup add_nonfic_parts(terms, f2_uri, has_part)
                \cup (IF parent /= <<>>
                      THEN component_pair(F2(uri_number(terms, parent)), f2_uri)
                      ELSE {}),
        counts |-> IF parent /= <<>> THEN made.counts
                   ELSE make_autoinc_id(made.counts, "F3").counts]

\* the same for the columns cols = [has_part, refs_normal] of the row
add_nonfic_columns(terms, g, d, row, nfprefix, f2_uri, cols) ==
  IF cols.raised THEN [raised |-> TRUE, g |-> g, counts |-> d]
  ELSE add_nonfic_graph(terms, g, d, f2_uri, row.by_lem, words(cols.out[1]),
         row_links(terms, f2_uri, words(cols.out[2]), nfprefix, row.lang),
         part_of(row.yid_lkg),
         make_autoinc_id(allocate_all(d, << get_class_prefix(get_id_from_uri(E35_Title)),
                                            get_class_prefix(get_id_from_uri(E42_Identifier)) >>),
                         "F2"))

\* one iteration of the loop of add_nonfic for a row of the sheet row.lang,
\* on the graph g and the counters d
add_nonfic_row(terms, g, d, row, nfprefix) ==
  add_nonfic_columns(terms, g, d, row, nfprefix, F2(uri_number(terms, row.yid_lkg)),
    nf_row_normalize_refs(row.refs, nfprefix, row.lang, lang_list, PREFIX_OTHER))

\* the relations build_monographs copies from the volumes' creation events:
\* the subproperties of P14_carried_out_by in the ontology the graph is
\* loaded with
authorships == { S142_written_by, S143_translated_by }

\* edition_yid of a multi-volume edition
edition_yid(volumes) == <<"u", "_">> \o join(volumes, <<"_">>)

\* the body of the loop over the editions of the Work f1_id for the
\* volumes vol_ids, f2_id the Expression the Work is realised in: g is the
\* graph build_monographs returns, graph_ the one it reads
build_volumes(graph_, g, d, f1_id, vol_ids, f2_id, first_order) ==
  LET f28_id == f28_of(f2_id)
      realises == { <<f1_id, R3_is_realised_in, f2_id>>, <<f2_id, R3i_realises, f1_id>>,
                    <<f28_id, R19_created_a_realisation_of, f1_id>>,
                    <<f1_id, R19i_was_realised_through, f28_id>> }
      umbrella ==
        { <<f2_id, RDF_type, F2_Expression>>,
          <<f2_id, P102_has_title, Literal(0)>>,
          <<f2_id, ORDERLABEL, xsd_float(first_order[2] - 1)>>,
          <<f28_id, RDF_type, F28_Expression_Creation>>,
          <<f2_id, R17i_was_created_by, f28_id>>,
          <<f28_id, R17_created, f2_id>> }
        \cup UNION { component_pair(f2_id, vol_ids[k]) : k \in DOMAIN vol_ids }
        \cup { <<f28_id, t[2], t[3]>> :
                 t \in { u \in graph_ : /\ \E k \in DOMAIN vol_ids : u[1] = f28_of(vol_ids[k])
                                        /\ u[2] \in authorships } }
  IN IF Len(vol_ids) = 1 THEN [raised |-> FALSE, g |-> g \cup realises, counts |-> d]
     \* float(None) of a first volume without order key and ", ".join of the
     \* titles of a volume without title raise
     ELSE IF first_order = None
             \/ \E k \in DOMAIN vol_ids : objects(graph_, vol_ids[k], P102_has_title) = {}
     THEN [raised |-> TRUE, g |-> g, counts |-> d]
     ELSE [raised |-> FALSE, g |-> g \cup umbrella \cup realises,
           counts |-> allocate_all(d, << get_class_prefix(get_id_from_uri(E35_Title)),
                                         get_class_prefix(get_id_from_uri(E42_Identifier)) >>)]

build_edition(terms, graph_, g, d, f1_id, volumes) ==
  build_volumes(graph_, g, d, f1_id,
    [ k \in DOMAIN volumes |-> F2(uri_number(terms, volumes[k])) ],
    IF Len(volumes) = 1 THEN F2(uri_number(terms, volumes[1]))
    ELSE F2(uri_number(terms, edition_yid(volumes))),
    value(graph_, F2(uri_number(terms, volumes[1])), ORDERLABEL))

RECURSIVE build_editions(_, _, _, _, _, _)
RECURSIVE build_rest(_, _, _, _, _)
\* the editions after one that left the result first
build_rest(terms, graph_, f1_id, editions, first) ==
  IF first.raised THEN first
  ELSE build_editions(terms, graph_, first.g, first.counts, f1_id, editions)
build_editions(terms, graph_, g, d, f1_id, editions) ==
  IF editions = <<>> THEN [raised |-> FALSE, g |-> g, counts |-> d]
  ELSE build_rest(terms, graph_, f1_id, Tail(editions),
                  build_edition(terms, graph_, g, d, f1_id, Head(editions)))

\* one iteration of the loop of build_monographs over data
build_monograph(terms, graph_, g, d, item) ==
  LET f1_id == F1(item.yid)
      f27_id == F27(item.yid)
      made == make_autoinc_id(d, "F1")
      d1 == allocate_all(made.counts, << get_class_prefix(get_id_from_uri(E35_Title)) >>)
      work == { <<f1_id, RDF_type, F1_Work>>,
                <<f1_id, P102_has_title, Literal(0)>>,
                <<f1_id, ORDERLABEL, order_key(made.uri)>>,
                <<f27_id, RDF_type, F27_Work_Creation>>,
                <<f27_id, S142_written_by, E21_P0>>,
                <<f27_id, R16_created, f1_id>>,
                <<f1_id, R16i_was_created_by, f27_id>> }
  IN build_editions(terms, graph_, g \cup work, d1, f1_id,
                    <<item.originals>> \o item.derivatives)

-----------------------------------------------------------------------------
(* Inputs of the graph construction: a Polish sheet with the book 4, its    *)
(* chapters and the collection 5, an English sheet with the book 4 and its  *)
(* chapters; every row may be missing; the reference cells name the         *)
(* counterpart in the other sheet, a chapter, or a range of chapters.       *)
NumChapters == 2      \* chapters of a book

PL == <<"P", "L">>
EN == <<"E", "N">>
yid_lkg(lang, yid_main) == PREFIX_NONFICTION \o lang \o yid_main
chapter(yid, c) == yid \o <<".">> \o str(c)
chapters(yid) == [ c \in 1..NumChapters |-> chapter(yid, c) ]
chapter_range(yid) == chapter(yid, 1) \o <<range_sign>> \o chapter(yid, NumChapters)

\* the monograph table: none, a Work with single-volume editions, a Work
\* with a two-volume edition, a Work whose two-volume editions share a volume
MonographData ==
  { <<>>,
    << [yid |-> 0, originals |-> << yid_lkg(PL, <<"4">>) >>,
        derivatives |-> << << yid_lkg(EN, <<"4">>) >> >>] >>,
    << [yid |-> 0, originals |-> << yid_lkg(PL, <<"4">>), yid_lkg(PL, <<"5">>) >>,
        derivatives |-> <<>>] >>,
    << [yid |-> 0, originals |-> << yid_lkg(PL, <<"4">>), yid_lkg(PL, <<"5">>) >>,
        derivatives |-> << << yid_lkg(PL, <<"5">>), yid_lkg(EN, <<"4">>) >> >>] >> }

Terms ==
  << yid_lkg(PL, <<"4">>), yid_lkg(PL, <<"5">>), yid_lkg(EN, <<"4">>) >>
    \o chapters(yid_lkg(PL, <<"4">>)) \o chapters(yid_lkg(EN, <<"4">>))
    \o << edition_yid(<< yid_lkg(PL, <<"4">>), yid_lkg(PL, <<"5">>) >>),
          edition_yid(<< yid_lkg(PL, <<"5">>), yid_lkg(EN, <<"4">>) >>) >>

\* the refs cells a row may hold
Cells(lang, yid_main) ==
  { <<>> } \cup
  (CASE yid_main = <<"5">> ->
          { <<up_arrow>> \o chapter_range(<<"4">>), <<up_arrow>> \o chapter(<<"4">>, 1) }
     [] lang = EN /\ yid_main = <<"4">> ->
          { <<up_arrow>> \o PL \o <<"4">>, <<up_arrow>> \o chapter_range(<<"4">>) }
     [] lang = EN /\ yid_main = chapter(<<"4">>, 1) ->
          { <<up_arrow>> \o PL \o yid_main, <<up_arrow>> \o PL \o yid_main \o <<">">>,
            <<up_arrow>> \o PL \o yid_main \o <<"-">> }
     [] lang = EN -> { <<up_arrow>> \o PL \o yid_main }
     [] OTHER -> {})

\* the rows a sheet may hold, in the order of the sheet
Slots ==
  << [lang |-> PL, yid_main |-> <<"4">>] >>
    \o [ c \in 1..NumChapters |-> [lang |-> PL, yid_main |-> chapter(<<"4">>, c)] ]
    \o << [lang |-> PL, yid_main |-> <<"5">>], [lang |-> EN, yid_main |-> <<"4">>] >>
    \o [ c \in 1..NumChapters |-> [lang |-> EN, yid_main |-> chapter(<<"4">>, c)] ]

RowsOf(slot) ==
  { [lang |-> slot.lang, yid_lkg |-> yid_lkg(slot.lang, slot.yid_main), refs |-> cell,
     by_lem |-> slot.lang = PL] : cell \in Cells(slot.lang, slot.yid_main) }

\* the sheets: each slot filled with one of its rows or left out
RECURSIVE Sheets(_)
Sheets(k) ==
  IF k = 0 THEN { <<>> }
  ELSE LET before == Sheets(k - 1)
       IN before \cup { Append(s, r) : s \in before, r \in RowsOf(Slots[k]) }

InitNonfic ==
  /\ todo \in Sheets(Len(Slots))
  /\ \E data \in MonographData : args = [data |-> data]
  /\ order \in { None, F2(uri_number(Terms, yid_lkg(PL, <<"5">>))) }
  /\ graph = {} /\ input = {}
  /\ pc = "add_nonfic"
  /\ stack = <<>> /\ log = <<>>
  /\ idle_works /\ idle_alloc /\ idle_refs

\* one iteration of the loop of add_nonfic, the sheets one after the other
AddNonfic ==
  /\ pc = "add_nonfic" /\ todo /= <<>>
  /\ \E r \in { add_nonfic_row(Terms, graph, autoinc_id_counts, Head(todo), PREFIX_NONFICTION) } :
        /\ graph' = r.g
        /\ autoinc_id_counts' = r.counts
        /\ pc' = IF r.raised THEN "raised" ELSE pc
  /\ todo' = Tail(todo)
  /\ UNCHANGED <<input, gw, counts, runs, stack, args, log, order, calls, refs>>

\* the sheets are exhausted (the authorship table is empty): infer_derivatives(graph)
AddNonficReturn ==
  /\ pc = "add_nonfic" /\ todo = <<>>
  /\ pc' = "infer_derivatives"
  /\ input' = graph
  /\ todo' = infer_roots(graph)
  /\ UNCHANGED <<graph, gw, counts, runs, stack, args, log, order, autoinc_id_counts, calls, refs>>

\* gm = build_monographs(graph, monographs, languages)
BuildMonographsCall ==
  /\ pc = "derivatives_inferred"
  /\ pc' = "build_monographs"
  /\ input' = graph
  /\ todo' = args.data
  /\ gw' = {}
  /\ UNCHANGED <<graph, counts, runs, stack, args, log, order, autoinc_id_counts, calls, refs>>

\* one iteration of the loop of build_monographs; gw holds its graph g
BuildMonograph ==
  /\ pc = "build_monographs" /\ todo /= <<>>
  /\ \E r \in { build_monograph(Terms, graph, gw, autoinc_id_counts, Head(todo)) } :
        /\ gw' = r.g
        /\ autoinc_id_counts' = r.counts
        /\ pc' = IF r.raised THEN "raised" ELSE pc
  /\ todo' = Tail(todo)
  /\ UNCHANGED <<graph, input, counts, runs, stack, args, log, order, calls, refs>>

\* graph += gm
MergeMonographs ==
  /\ pc = "build_monographs" /\ todo = <<>>
  /\ graph' = graph \cup gw
  /\ pc' = "monographs_merged"
  /\ UNCHANGED <<input, todo, gw, counts, runs, stack, args, log, order, autoinc_id_counts, calls, refs>>

NextNonfic ==
  \/ AddNonfic
  \/ AddNonficReturn
  \/ InferDerivativesVisit
  \/ InferDerivativesReturn
  \/ BuildMonographsCall
  \/ BuildMonograph
  \/ MergeMonographs

SpecNonfic == InitNonfic /\ [][NextNonfic]_vars

-----------------------------------------------------------------------------
(* Properties of the component hierarchy *)
parents(g, e) == objects(g, e, R5i_is_component_of)
monographs_merged == pc = "monographs_merged"

\* C15: in the graph the construction leaves after add_nonfic over all
\* sheets, infer_derivatives and build_monographs, every Expression has at
\* most one is-component-of parent.
C15_AtMostOneParent ==
  monographs_merged =>
    \A t \in graph : t[2] = R5i_is_component_of => Cardinality(parents(graph, t[1])) <= 1

-----------------------------------------------------------------------------
(* The reference resolver on records with a malformed sub-token *)
\* sub-tokens from which neither a sheet prefix nor a number can be parsed
Malformed == { <<>>, <<" ">>, <<"-">>, <<"!">> }
\* the well-formed sub-tokens written next to a malformed one
PlainSubTokens ==
  { s \in SubTokens : s.tail.kind = "none" /\ s.suffix = <<>> }
\* the record: the malformed sub-token before or after the well-formed one
malformed_text(shape) ==
  IF shape.malformed_first THEN shape.malformed \o shape.sep \o sub_text(shape.subs[1])
  ELSE sub_text(shape.subs[1]) \o shape.sep \o shape.malformed

InitMalformed ==
  /\ pc = "resolve"
  /\ \E s \in PlainSubTokens : \E m \in Malformed : \E sep \in Separators :
     \E malformed_first \in BOOLEAN : \E prefix_default \in SheetPrefixes :
       LET shape == [subs |-> <<s>>, sep |-> sep, malformed |-> m,
                     malformed_first |-> malformed_first]
       IN args = [ sourceref |-> malformed_text(shape), prefix_default |-> prefix_default,
                   shape |-> shape ]
  /\ refs = <<>>
  /\ graph = {} /\ input = {} /\ todo = {} /\ order = None
  /\ gw = {} /\ counts = 0 /\ runs = 0 /\ stack = <<>> /\ log = <<>>
  /\ idle_alloc

NextMalformed == NormalizeRef \/ NfRowNormalizeRefs

SpecMalformed == InitMalformed /\ [][NextMalformed]_vars

\* C21: a sub-token from which no sheet prefix or number can be parsed is
\* dropped: the resolver call does not fail and returns what it returns for
\* the record's remaining sub-token alone.
C21_MalformedDropped ==
  /\ pc = "normalize_ref"
       => /\ ~refs.raised
          /\ refs = normalize_ref(sub_text(the_sub), args.prefix_default, PREFIX_NONFICTION,
                                  lang_list, PREFIX_OTHER)
  /\ pc = "_nf_row_normalize_refs"
       => /\ ~refs.raised
          /\ refs = nf_row_normalize_refs(<<up_arrow>> \o sub_text(the_sub), PREFIX_NONFICTION,
                                          args.prefix_default, lang_list, PREFIX_OTHER)

-----------------------------------------------------------------------------
(* build_graph from the nonfiction sheets to the returned graph: add_nonfic, *)
(* infer_derivatives, build_monographs, infer_works, remove_tempflags       *)

\* variant: the iteration over the markers ends after the first removal
remove_tempflags_first(g) ==
  LET flags == { t \in g : t[2] = SKIP }
  IN IF flags = {} THEN g
     ELSE g \ { CHOOSE t \in flags : \A u \in flags : t[1][2] <= u[1][2] }

\* remove_tempflags(graph): graph.triples yields from a copy of the store's
\* index, so every marker triple is visited and removed
remove_tempflags(g) == g \ { t \in g : t[2] = SKIP }

\* the refs cells of a row of the English sheet: none, its Polish
\* counterpart, its Polish counterpart as a mere citation
BuildCells(yid_main) ==
  { <<>>, <<up_arrow>> \o PL \o yid_main, <<up_arrow>> \o PL \o yid_main \o <<"-">> }

BuildSlots ==
  << <<"4">> >> \o chapters(<<"4">>)

\* the English rows after the rows of the Polish sheet
RECURSIVE BuildSheets(_)
BuildSheets(k) ==
  IF k = 0
  THEN { [ j \in DOMAIN BuildSlots |->
             [lang |-> PL, yid_lkg |-> yid_lkg(PL, BuildSlots[j]), refs |-> <<>>, by_lem |-> TRUE] ] }
  ELSE LET before == BuildSheets(k - 1)
       IN before \cup
          { Append(s, [lang |-> EN, yid_lkg |-> yid_lkg(EN, BuildSlots[k]), refs |-> cell,
                       by_lem |-> FALSE]) : s \in before, cell \in BuildCells(BuildSlots[k]) }

InitBuild ==
  /\ todo \in BuildSheets(Len(BuildSlots))
  /\ \E data \in { d \in MonographData : \A k \in DOMAIN d : Len(d[k].originals) = 1 } :
       args = [data |-> data, nf |-> todo]
  /\ order = None
  /\ graph = {} /\ input = {}
  /\ pc = "add_nonfic"
  /\ stack = <<>> /\ log = <<>>
  /\ idle_works /\ idle_alloc /\ idle_refs

\* gw = infer_works(graph): the loop starts on the merged graph
InferWorksCall ==
  /\ pc = "monographs_merged"
  /\ pc' = "infer_works"
  /\ input' = graph
  /\ todo' = typed(graph)
  /\ gw' = {}
  /\ counts' = IF "F1" \in DOMAIN autoinc_id_counts THEN autoinc_id_counts["F1"] ELSE 0
  /\ UNCHANGED <<graph, runs, stack, args, log, order, autoinc_id_counts, calls, refs>>

\* remove_tempflags(graph); graph.serialize(graph_path); return graph
RemoveTempflags ==
  /\ pc = "works_merged"
  /\ graph' = remove_tempflags(graph)
  /\ pc' = "graph_built"
  /\ UNCHANGED <<input, todo, gw, counts, runs, stack, args, log, order, autoinc_id_counts, calls, refs>>

NextBuild ==
  \/ AddNonfic
  \/ AddNonficReturn
  \/ InferDerivativesVisit
  \/ InferDerivativesReturn
  \/ BuildMonographsCall
  \/ BuildMonograph
  \/ MergeMonographs
  \/ InferWorksCall
  \/ InferWorksVisit
  \/ InferWorksMerge
  \/ RemoveTempflags

SpecBuild == InitBuild /\ [][NextBuild]_vars

-----------------------------------------------------------------------------
(* Properties of build_graph *)
graph_built == pc = "graph_built"
\* the Expressions of the rows whose reference is a mere citation
cited(nf) ==
  { F2(uri_number(Terms, nf[k].yid_lkg)) : k \in { j \in DOMAIN nf : endswith(nf[j].refs, <<"-">>) } }

\* C22: while infer_works runs, every Expression whose row set the skip
\* marker still carries it and is given no Work; the graph build_graph
\* persists and returns holds no skip-marker triple.
C22_SkipMarkersLiveUntilWorks ==
  /\ pc = "infer_works" =>
       \A e \in cited(args.nf) : has_skip(graph, e) /\ f1_of(e) \notin work_entities(gw)
  /\ graph_built =>
       /\ \A t \in graph : t[2] /= SKIP
       /\ \A e \in cited(args.nf) : f1_of(e) \notin work_entities(graph)

\* a graph was returned for sheets in which every English row is a mere
\* citation, and the inference built a Work
C22_Witness ==
  /\ graph_built
  /\ Cardinality(cited(args.nf)) = Len(BuildSlots)
  /\ work_entities(gw) /= {}

-----------------------------------------------------------------------------
(* Canonical IDs of the source rows: nf_filter_entities and people_merge    *)
MaxRows == 3          \* rows of a nonfiction sheet
MaxPeople == 2        \* rows of each of the two people sheets

\* re.search(r"\d+", s)
search_digits(s) == \E k \in DOMAIN s : isdigit(s[k])

\* _nf_row_yid_lkg(row, df) for the row at position i of df; the function
\* returns None when no row above holds a main YID
nf_row_yid_lkg(df, i) ==
  IF ~contains(df[i].yid_main, <<"~">>) /\ df[i].yid_main /= <<>> THEN df[i].yid_main
  ELSE LET above == { j \in 1..(i - 1) : search_digits(df[j].yid_main) }
       IN IF above = {} THEN None
          ELSE join(<<df[max(above)].yid_main, df[i].yid_sub>>, <<".">>)

\* df.duplicated(subset=["yid_lkg"], keep=False): the positions of the rows
\* whose ID another row has
duplicated(df) ==
  { i \in DOMAIN df : \E j \in DOMAIN df : j /= i /\ df[j].yid_lkg = df[i].yid_lkg }

\* variant: keep="last"
RECURSIVE drop_duplicates_last(_)
drop_duplicates_last(df) ==
  IF df = <<>> THEN <<>>
  ELSE IF \E j \in 2..Len(df) : df[j].yid_lkg = df[1].yid_lkg
  THEN drop_duplicates_last(Tail(df))
  ELSE <<Head(df)>> \o drop_duplicates_last(Tail(df))

\* df.drop_duplicates(subset=["yid_lkg"]): keep="first"
RECURSIVE drop_duplicates(_)
drop_duplicates(df) ==
  IF df = <<>> THEN <<>>
  ELSE LET before == SubSeq(df, 1, Len(df) - 1)
           last == df[Len(df)]
       IN IF \E j \in DOMAIN before : before[j].yid_lkg = last.yid_lkg
          THEN drop_duplicates(before)
          ELSE Append(drop_duplicates(before), last)

\* nf_filter_entities(nonfic, prefix_nf, prefix_lang) for a sheet without
\* range rows: the frame it returns and the rows its warning lists
nf_filter_entities(nonfic, prefix_nf, prefix_lang) ==
  LET with_yid == [ i \in DOMAIN nonfic |->
                      [yid_lkg |-> nf_row_yid_lkg(nonfic, i), title |-> nonfic[i].title] ]
      plain == SelectSeq(with_yid, LAMBDA r : ~contains(r.yid_lkg, <<"~">>))
      prefixed == [ i \in DOMAIN plain |->
                      [yid_lkg |-> prefix_nf \o prefix_lang \o plain[i].yid_lkg,
                       title |-> plain[i].title] ]
      kept == drop_duplicates(prefixed)
  IN IF \E i \in DOMAIN with_yid : with_yid[i].yid_lkg = None THEN raised_result
     ELSE [raised |-> FALSE,
           out |-> [ i \in DOMAIN kept |->
                       [yid_lkg |-> kept[i].yid_lkg, title |-> kept[i].title,
                        part_of |-> part_of(kept[i].yid_lkg)] ],
           duplicates |-> [ i \in duplicated(prefixed) |-> prefixed[i] ]]

\* pd.merge(plp_names, prs_names, how="outer", on=["person_id", "type"]):
\* one row per pair of rows with the same key, one row per row without
\* partner; the result is indexed by person_id
merge_outer(plp, prs) ==
  { [person_id |-> plp[m[1]].person_id, type |-> plp[m[1]].type, plp |-> m[1], prs |-> m[2]] :
      m \in { n \in (DOMAIN plp) \X (DOMAIN prs) :
                 /\ prs[n[2]].person_id = plp[n[1]].person_id
                 /\ prs[n[2]].type = plp[n[1]].type } }
  \cup { [person_id |-> plp[i].person_id, type |-> plp[i].type, plp |-> i, prs |-> 0] :
           i \in { k \in DOMAIN plp : \A j \in DOMAIN prs :
                     prs[j].person_id /= plp[k].person_id \/ prs[j].type /= plp[k].type } }
  \cup { [person_id |-> prs[j].person_id, type |-> prs[j].type, plp |-> 0, prs |-> j] :
           j \in { k \in DOMAIN prs : \A i \in DOMAIN plp :
                     plp[i].person_id /= prs[k].person_id \/ plp[i].type /= prs[k].type } }

\* people_merge(plp_names, prs_names, person_prefix): the IDs of the frame
\* it returns; it raises ValueError("Duplicate Person ID") when two rows of
\* the merged frame have the same index
people_merge(plp, prs, person_prefix) ==
  LET person_merge == merge_outer(plp, prs)
  IN IF \E r \in person_merge : \E q \in person_merge : r /= q /\ r.person_id = q.person_id
     THEN raised_result
     ELSE returns({ [yid_lkg |-> person_prefix \o r.person_id, type |-> r.type] : r \in person_merge })

-----------------------------------------------------------------------------
(* Inputs: a nonfiction sheet of main rows and sub rows, the first a main   *)
(* row; two people sheets                                                   *)
PREFIX_PERSON == <<"P">>
MainRows == [ yid_main : { <<"4">>, <<"5">> }, yid_sub : { <<>> }, title : { "a", "b" } ]
SubRows == [ yid_main : { <<"~">> }, yid_sub : { <<"1">>, <<"2">> }, title : { "a", "b" } ]
NonficSheets ==
  { <<m>> \o s : m \in MainRows, s \in seqs_upto(MainRows \cup SubRows, MaxRows - 1) }
PersonRows == [ person_id : { <<"1">>, <<"2">> }, type : { "person", "group" } ]
PeopleSheets == seqs_upto(PersonRows, MaxPeople)

InitEntities ==
  /\ pc = "extract"
  /\ \/ \E nonfic \in NonficSheets : args = [nonfic |-> nonfic, plp |-> <<>>, prs |-> <<>>]
     \/ \E plp \in PeopleSheets : \E prs \in PeopleSheets :
          /\ plp \o prs /= <<>>
          /\ args = [nonfic |-> <<>>, plp |-> plp, prs |-> prs]
  /\ refs = <<>>
  /\ graph = {} /\ input = {} /\ todo = {} /\ order = None
  /\ gw = {} /\ counts = 0 /\ runs = 0 /\ stack = <<>> /\ log = <<>>
  /\ idle_alloc

\* nf[sheetname] = extract.nf_filter_entities(nonfic, PREFIX_NONFICTION, lang)
NfFilterEntities ==
  /\ pc = "extract" /\ args.nonfic /= <<>>
  /\ refs' = nf_filter_entities(args.nonfic, PREFIX_NONFICTION, PL)
  /\ pc' = "nf_filter_entities"
  /\ UNCHANGED <<graph, input, todo, gw, counts, runs, stack, args, log, order, autoinc_id_counts, calls>>

\* people = extract.people_merge(plp_names, prs_names, PREFIX_PERSON)
PeopleMerge ==
  /\ pc = "extract" /\ args.nonfic = <<>>
  /\ refs' = people_merge(args.plp, args.prs, PREFIX_PERSON)
  /\ pc' = "people_merge"
  /\ UNCHANGED <<graph, input, todo, gw, counts, runs, stack, args, log, order, autoinc_id_counts, calls>>

NextEntities == NfFilterEntities \/ PeopleMerge

SpecEntities == InitEntities /\ [][NextEntities]_vars

-----------------------------------------------------------------------------
(* Properties of the duplicate handling *)
\* the canonical IDs of the rows of the nonfiction sheet, row by row
canonical_ids ==
  [ i \in DOMAIN args.nonfic |->
      PREFIX_NONFICTION \o PL \o
        (IF args.nonfic[i].yid_sub = <<>> THEN args.nonfic[i].yid_main
         ELSE LET main == max({ j \in 1..i : args.nonfic[j].yid_sub = <<>> })
              IN args.nonfic[main].yid_main \o <<".">> \o args.nonfic[i].yid_sub) ]
\* the positions of the rows whose ID no earlier row has
first_seen == { i \in DOMAIN canonical_ids : \A j \in 1..(i - 1) : canonical_ids[j] /= canonical_ids[i] }
unique_ids(rows) ==
  \A i \in DOMAIN rows : \A j \in DOMAIN rows : rows[i].yid_lkg = rows[j].yid_lkg => i = j
\* the nonfiction frame holds, in the order of the sheet, exactly the
\* first-seen row of every canonical ID
first_wins ==
  /\ ~refs.raised
  /\ Len(refs.out) = Cardinality(first_seen)
  /\ \A k \in DOMAIN refs.out :
       \E i \in first_seen :
         /\ Cardinality({ j \in first_seen : j <= i }) = k
         /\ refs.out[k].yid_lkg = canonical_ids[i]
         /\ refs.out[k].title = args.nonfic[i].title
  /\ unique_ids(refs.out)
\* two rows of the people sheets have the same person ID and are not the
\* two halves of one person (same ID and type, one in each sheet)
person_clash ==
  \/ \E s \in { args.plp, args.prs } : \E i \in DOMAIN s : \E j \in DOMAIN s :
       i /= j /\ s[i].person_id = s[j].person_id
  \/ \E i \in DOMAIN args.plp : \E j \in DOMAIN args.prs :
       args.plp[i].person_id = args.prs[j].person_id /\ args.plp[i].type /= args.prs[j].type

\* C23 as stated: when two source rows normalize to the same canonical ID
\* the run does not fail, the first-seen row is kept and the later ones are
\* dropped, and the IDs handed to graph construction are unique.
C23_DuplicateIdFirstWins ==
  /\ pc = "nf_filter_entities" => first_wins
  /\ pc = "people_merge" =>
       /\ ~refs.raised
       /\ \A r \in refs.out : \A q \in refs.out : r.yid_lkg = q.yid_lkg => r = q

\* C23 amended: of the nonfiction rows with the same canonical ID the
\* first-seen is kept and the later ones are dropped, so the IDs of the
\* frame are unique; two people rows with the same person ID make
\* people_merge raise, and the frame it returns otherwise has unique IDs.
C23_FirstWinsForNonfictionOnly ==
  /\ pc = "nf_filter_entities" => first_wins
  /\ pc = "people_merge" =>
       /\ refs.raised <=> person_clash
       /\ ~refs.raised =>
            \A r \in refs.out : \A q \in refs.out : r.yid_lkg = q.yid_lkg => r = q

\* a sheet with a later row of the same ID and another title was filtered,
\* and a row after the dropped one was kept
C23_Witness ==
  /\ pc = "nf_filter_entities"
  /\ Len(args.nonfic) = MaxRows
  /\ canonical_ids[1] = canonical_ids[2] /\ args.nonfic[1].title /= args.nonfic[2].title
  /\ Len(refs.out) = 2
  /\ refs.duplicates /= <<>>

-----------------------------------------------------------------------------
(* Properties of the authorships *)
\* the Expressions above and below e in the component hierarchy
ancestors(g, e) == path_closure(g, {R5i_is_component_of}, {e}, {})
descendants_of(g, e) == path_closure(g, {R5_has_component}, {e}, {})
\* the person is attached to the creation event of e by an authorship relation
author_of(g, e, person) ==
  \E p \in authorships : <<f28_of(e), p, person>> \in g
has_creation(g, e) == objects(g, e, R17i_was_created_by) /= {}

\* C24: after add_authorships has processed the table, a person is attached
\* to the creation event of every ancestor and of every descendant of each
\* Expression the person is referenced on.
C24_AuthorOfAncestorsAndDescendants ==
  authorships_added =>
    \A k \in DOMAIN refs :
      \A e \in ancestors(input, refs[k][2]) \cup descendants_of(input, refs[k][2]) :
        has_creation(input, e) => author_of(graph, e, refs[k][1])

-----------------------------------------------------------------------------
(* Properties of the leaf branch and of the triples the inference adds *)
\* the derivative relation types by which s points to o
deriv_types_to(g, s, o) == predicates(g, s, o) \cap derivoptions
\* the composite Expressions whose components are all leaves
leaf_parents(g) ==
  { s \in Exprs : ~is_leaf(g, s) /\ \A c \in children_of(g, s) : is_leaf(g, c) }

\* C25: for an Expression without components _infer_derivative returns a
\* pair exactly when its derivative relations point to one single target;
\* the pair names that target and its set holds every relation type by
\* which the Expression points to it; the function returns none when the
\* Expression has no derivative target or more than one.  The relation a
\* composite of leaves gets is built from these sets.
C25_LeafResult ==
  /\ \A s \in Exprs :
       is_leaf(graph, s) =>
         LET r == infer_leaf(graph, s)
         IN /\ r.some <=> Cardinality(deriv_targets(graph, s)) = 1
            /\ r.some => /\ deriv_targets(graph, s) = {r.ref}
                         /\ deriv_types_to(graph, s, r.ref) = deriv_types(graph, s)
                         /\ deriv_types(graph, s) \subseteq r.props
                         /\ \A p \in r.props : <<s, p, r.ref>> \in graph
            /\ ~r.some => r.props = {} /\ r.ref = None
  /\ inferred_done =>
       \A s \in leaf_parents(input) :
         (\E c \in children_of(input, s) : Cardinality(deriv_targets(input, c)) /= 1)
           => ~(\E t \in asserted : t[1] = s)

\* a leaf points to one target by two relation types, its composite got
\* both, and a leaf outside that composite is left with no result
C25_Witness ==
  /\ inferred_done
  /\ \E s \in leaf_parents(input) : \E c \in children_of(input, s) :
       /\ Cardinality(deriv_types(input, c)) = 2
       /\ Cardinality(deriv_targets(input, c)) = 1
       /\ Cardinality({ t \in asserted : t[1] = s }) = 2
  /\ \E s \in Exprs : is_leaf(graph, s) /\ ~infer_leaf(graph, s).some

\* the relation types between the components of a and the components of b
component_relation_types(g, a, b) ==
  { t[2] : t \in { u \in g : /\ u[1] \in children_of(g, a) /\ u[3] \in children_of(g, b)
                             /\ u[2] \in derivoptions } }
\* every component of a is a derivative of a component of b
derived_componentwise(g, a, b) ==
  \A x \in children_of(g, a) : \E y \in children_of(g, b) : deriv_types_to(g, x, y) /= {}

\* C26: when every component of A is a derivative of a component of B, the
\* inference relates A to B by the type of the component relations when
\* they are all of one type, and by R76_is_derivative_of when they are not.
C26_SameTypeElseGeneric ==
  inferred_done =>
    \A a \in { ExprA, ExprB } : \A b \in { ExprA, ExprB } :
      (a /= b /\ derived_componentwise(input, a, b)) =>
        LET types == component_relation_types(input, a, b)
        IN IF Cardinality(types) = 1
           THEN \A p \in types : <<a, p, b>> \in graph
           ELSE <<a, R76_is_derivative_of, b>> \in graph

\* C29: in every graph state, (A has-component B) is in the graph if and
\* only if (B is-component-of A) is.
C29_ComponentInverses ==
  /\ \A t \in graph : t[2] = R5_has_component => <<t[3], R5i_is_component_of, t[1]>> \in graph
  /\ \A t \in graph : t[2] = R5i_is_component_of => <<t[3], R5_has_component, t[1]>> \in graph

\* C30: every triple the inference adds has an Expression with components
\* as subject and a derivative-type relation as predicate, and no triple of
\* the graph the inference was called on is removed.
C30_AddsOnlyDerivatives ==
  /\ input \subseteq graph
  /\ \A t \in asserted : ~is_leaf(input, t[1]) /\ t[2] \in derivoptions

-----------------------------------------------------------------------------
(* add_authorships followed by infer_derivatives, as build_graph calls      *)
(* them: a translated book and its chapter, the original book and its       *)
(* chapter, and a table of references to the translated book and chapter    *)
Book == F2(1)
Chapter == F2(2)
OriginalBook == F2(3)
OriginalChapter == F2(4)

\* what add_nonfic has written for the four rows: the translation is
\* recorded on the chapter row, on the book row, on both or on none
InitTranslated ==
  /\ \E translated \in SUBSET { <<Book, OriginalBook>>, <<Chapter, OriginalChapter>> } :
     \E by_lem \in SUBSET { OriginalBook } :
       graph = component_pair(Book, Chapter) \cup component_pair(OriginalBook, OriginalChapter)
                 \cup { <<n, R17i_was_created_by, f28_of(n)>> :
                          n \in { Book, Chapter, OriginalBook, OriginalChapter } }
                 \cup { <<f28_of(n), S142_written_by, E21_P0>> : n \in by_lem }
                 \cup { <<t[1], S761_is_translation_of, t[2]>> : t \in translated }
  /\ todo \in seqs_upto(People \X { Book, Chapter }, MaxAuthorships)
  /\ refs = todo
  /\ input = graph
  /\ pc = "add_authorships"
  /\ order = None
  /\ idle_works /\ idle_prop
  /\ idle_alloc

\* add_authorships has returned: infer_derivatives(graph)
InferDerivativesCall ==
  /\ pc = "authorships_added"
  /\ pc' = "infer_derivatives"
  /\ todo' = infer_roots(graph)
  /\ UNCHANGED <<graph, input, gw, counts, runs, stack, args, log, order, autoinc_id_counts, calls, refs>>

NextTranslated ==
  \/ AddAuthorship
  \/ PropagateSkip
  \/ PropagateAttach
  \/ PropagateReturn
  \/ PropagateDown
  \/ NextAuthorship
  \/ AddAuthorshipsReturn
  \/ InferDerivativesCall
  \/ InferDerivativesVisit
  \/ InferDerivativesReturn

SpecTranslated == InitTranslated /\ [][NextTranslated]_vars

\* the Expression is a translation
is_translation(g, e) == S761_is_translation_of \in predicates_of(g, e)

\* C27: in the graph build_graph produces, a person other than Lem who is
\* referenced on an Expression that is a translation is attached to its
\* creation event as translated-by and not as written-by; Lem is attached
\* as written-by wherever he is referenced and as translated-by nowhere.
C27_TranslatorsOfTranslations ==
  inferred_done =>
    /\ \A k \in DOMAIN refs :
         (refs[k][1] /= E21_P0 /\ is_translation(graph, refs[k][2])) =>
           /\ <<f28_of(refs[k][2]), S143_translated_by, refs[k][1]>> \in graph
           /\ <<f28_of(refs[k][2]), S142_written_by, refs[k][1]>> \notin graph
    /\ \A k \in DOMAIN refs :
         refs[k][1] = E21_P0 => <<f28_of(refs[k][2]), S142_written_by, E21_P0>> \in graph
    /\ \A t \in graph : t[3] = E21_P0 => t[2] /= S143_translated_by

-----------------------------------------------------------------------------
(* Properties of the visiting order of infer_works *)
\* the result without the order keys
without_order_keys(g) == { t \in g : t[2] /= ORDERLABEL }
order_keys(g) == { t[3] : t \in { u \in g : u[2] = ORDERLABEL } }
\* the Expressions of the graph the run was called on that get a Work
roots_of_run == { e \in typed(input) : makes_work(input, e) }
\* some iteration of the run raises
run_raises == \E e \in roots_of_run : add_raises(input, e)

\* C28: whatever the order in which infer_works visits the Expressions, the
\* run raises or returns alike, and the result it returns holds, apart from
\* the order keys, the Works, realisation links, creation events and copied
\* relations that the graph it was called on determines for each root; the
\* order keys are the numbers allocated during the run, one for each Work.
C28_VisitOrderIndependent ==
  /\ pc = "raised" => run_raises
  /\ returned =>
       /\ ~run_raises
       /\ without_order_keys(gw)
            = without_order_keys(UNION { work_triples(input, e, 0) : e \in roots_of_run })
       /\ order_keys(gw)
            = { Literal(n) : n \in (counts - Cardinality(roots_of_run))..(counts - 1) }
       /\ \A e \in roots_of_run : Cardinality(objects(gw, f1_of(e), ORDERLABEL)) = 1

\* a run has returned two Works, the Expression with the larger number was
\* visited first, and Lem's authorship was copied to a Work's creation
C28_Witness ==
  /\ returned
  /\ \E e1 \in roots_of_run : \E e2 \in roots_of_run :
       /\ e1[2] < e2[2]
       /\ \E k1 \in objects(gw, f1_of(e1), ORDERLABEL) :
          \E k2 \in objects(gw, f1_of(e2), ORDERLABEL) : k2[2] < k1[2]
  /\ \E e \in roots_of_run : <<f27_of(e), S142_written_by, E21_P0>> \in gw

====
